---- MODULE Spec2Model ----
(***************************************************************************)
(* Model of the request orchestration engine of ai-chat-sdk:               *)
(*   - SDK.Chat with its expert path and its agentic loop,                 *)
(*   - Agent.Chat / Agent.runLoop of the agentic package,                  *)
(*   - SDK.validateResponse as a function over JSON values,                *)
(*   - skills.Registry.Match, SDK.selectVariant and conversation.MemoryStore *)
(*     called on their own,                                                *)
(*   - tools.Registry: GetForSkill, the Input a registered tool is called  *)
(*     with, and the lists the registries hand out,                        *)
(*   - SDK.Chat requests running concurrently on one conversation,         *)
(*   - SDK.buildPrompt and SDK.buildAgentMessages as functions,            *)
(*   - Agent.Chat calls running concurrently on one session,               *)
(*   - the expert dispatcher (newRouter, NewDispatcher).                   *)
(* The programs are independent; a behaviour runs one of them              *)
(* (variable prog), the variables of the others stay parked.               *)
(***************************************************************************)
EXTENDS Integers, Sequences, FiniteSets, TLC

VARIABLES
    prog,        \* which program this behaviour runs: "sdk", "agent", "validate",
                 \* "match", "variant", "memstore", "resolve", "input", "registry",
                 \* "chats", "prompt", "sessions", "dispatch"
    \* ---- SDK (package aichat) ----
    cfg,         \* SDK.config after withDefaults
    pc,          \* position inside SDK.Chat
    req,         \* the ChatRequest being served
    skill,       \* the routed skill (a record of Skills), or NoSkill
    mode,        \* the resolved execution mode
    turn,        \* loop variable of the agent loop
    lmCalls,     \* ChatCompletion calls issued for this request
    emitted,     \* tool calls the LM has emitted so far in this request
    pending,     \* tool calls of the current LM response not yet processed
    toolCalls,   \* the local toolCalls slice
    invoked,     \* executors (Fetch / Execute) invoked, in order
    response,    \* the response bytes being assembled
    result,      \* what Chat returned: a ChatResult record or NoResult
    err,         \* the error Chat returned ("" for nil)
    storage,     \* messages of the conversation in the ConversationStore
    ran,         \* which callbacks ran in this request, and the LM's final content
    ctx,         \* the request's context.Context: its Err() and where Chat was when it ended
    variant,     \* the SkillVariant selectVariant returned, <<>> before the call
    \* ---- Agent (package agent) ----
    acfg,        \* Agent.config
    apc,         \* position inside Agent.Chat
    aturn,       \* loop variable of runLoop
    aCalls,      \* provider.Chat calls issued for this request
    aPending,    \* tool calls of the current provider response not yet executed
    aEmitted,    \* tool calls the provider has emitted so far
    allToolCalls,\* runLoop's allToolCalls
    llmMessages, \* runLoop's llmMessages (roles only)
    conv,        \* the conversation Chat works on
    convStore,   \* the store: conversation by session id
    aOut,        \* what Chat returned
    aBefore,     \* what the store held when the current Agent.Chat was called
    \* ---- validateResponse ----
    vSchema,     \* the skill's Output schema
    vResponse,   \* the response handed to validateResponse
    vResult,     \* its verdict, "" before the call
    \* ---- skills.Registry.Match ----
    mMessage,    \* the utterance
    mResults,    \* the lists successive Match calls returned
    \* ---- SDK.selectVariant ----
    svSkill,     \* the skill's Variants
    svReq,       \* the requested variant id and the user id
    svResults,   \* clock value and outcome of each call so far
    \* ---- conversation.MemoryStore ----
    msConvs,     \* MemoryStore.conversations: the messages of each conversation
    msGot,       \* what the caller's last get returned
    msLast,      \* the last operation and its arguments
    \* ---- tools.Registry.GetForSkill ----
    gfNames,     \* the skill's tool names
    gfResult,    \* what GetForSkill returned, <<>> before the call
    \* ---- a registered tool called by the engine ----
    tiCall,      \* the tool's declared parameters and the params map of the call
    tiSeen,      \* what the tool's function observed through its Input, <<>> before
    \* ---- tools.Registry / skills.Registry and a caller holding a snapshot ----
    rgHeap,      \* the definitions allocated so far, by address
    rgMaps,      \* the maps of the registries: name -> address, per registry
    rgSnap,      \* the list an All* call returned and what it showed then
    \* ---- concurrent SDK.Chat requests on one conversation ----
    ccPc,        \* position of each request
    ccMu,        \* MemoryStore.mu: the request holding it, 0 when free
    ccConvs,     \* MemoryStore.conversations
    ccLocal,     \* AddMessage's locals of each request
    ccMeta,      \* the metadata map of each call frame
    ccSeen,      \* the metadata each hook of each request was handed
    \* ---- SDK.buildPrompt and SDK.buildAgentMessages ----
    pmIn,        \* the skill, variant, request context, utterance and seed data
    pmOut,       \* the two message sequences built, <<>> before
    \* ---- Agent.Chat calls running concurrently on one session ----
    sxKind,      \* the ConversationStore of the agent: "memory" or "postgres"
    sxPc,        \* position of each call
    sxStore,     \* the messages the store holds for the session
    sxLocal,     \* each call's conversation (postgres) and the slice its append read
    \* ---- the expert dispatcher ----
    dpIn,        \* configured experts, default expert, the router's and handler's outcome
    dpOut        \* what the dispatcher returned, <<>> before

sdkVars == <<cfg, pc, req, skill, mode, turn, lmCalls, emitted, pending, toolCalls,
             invoked, response, result, err, storage, ran, ctx, variant>>
agentVars == <<acfg, apc, aturn, aCalls, aPending, aEmitted, allToolCalls,
               llmMessages, conv, convStore, aOut, aBefore>>
valVars == <<vSchema, vResponse, vResult>>
libVars == <<mMessage, mResults, svSkill, svReq, svResults, msConvs, msGot, msLast>>
toolVars == <<gfNames, gfResult, tiCall, tiSeen, rgHeap, rgMaps, rgSnap>>
chatVars == <<ccPc, ccMu, ccConvs, ccLocal, ccMeta, ccSeen>>
promptVars == <<pmIn, pmOut>>
sessVars == <<sxKind, sxPc, sxStore, sxLocal>>
dispVars == <<dpIn, dpOut>>
moreVars == <<promptVars, sessVars, dispVars>>
vars == <<prog, sdkVars, agentVars, valVars, libVars, toolVars, chatVars, moreVars>>

----------------------------------------------------------------------------
(* Bounds of the model *)

MaxCfgTurns == 2          \* configured MaxAgentTurns / MaxTurns range over 0..MaxCfgTurns
MaxCallsPerResponse == 2  \* tool calls in one LM response
MaxVaried == 1            \* LM calls after which the LM keeps to one plain source call
MaxFetcherCalls == 2      \* calls an expert fetcher makes to its ToolExecutor
MaxSessions == 2          \* conversations the agent's store comes to hold
MaxHistory == 2           \* messages a conversation holds when a further request starts
MaxClock == 2             \* time.Now().UnixNano() ranges over 0..MaxClock
MaxLibCalls == 2          \* successive calls of Match / selectVariant on the same input
MaxStored == 3            \* messages the MemoryStore comes to hold

(* Program constants *)

DefaultMaxAgentTurns == 10
DefaultMaxTurns == 10

ModeExpert == "expert"
ModeAgentic == "agentic"

ErrCodeNotFound == "NOT_FOUND"
ErrCodeRouting == "ROUTING_ERROR"
ErrCodeToolExecution == "TOOL_EXECUTION_ERROR"
ErrCodeLLM == "LLM_ERROR"
ErrCodeSchema == "SCHEMA_ERROR"
ErrCodeConfiguration == "CONFIGURATION_ERROR"
ErrCodeInternal == "INTERNAL_ERROR"
ErrHook == "hook failed"          \* the fmt.Errorf-wrapped hook / post-processing errors
ErrToolNotFound == "tool not found"

----------------------------------------------------------------------------
(* JSON values: the bytes the LM returns, by what encoding/json makes of them *)

JInvalid == [kind |-> "invalid"]      \* bytes that are not JSON (plain text)
JEmpty == [kind |-> "empty"]          \* a nil json.RawMessage
JNull == [kind |-> "null"]
JStr(s) == [kind |-> "string", v |-> s]
JNum(n) == [kind |-> "number", v |-> n]
JArr(es) == [kind |-> "array", elems |-> es]
JObj(f) == [kind |-> "object", fields |-> f]

\* json.Unmarshal(bytes, &map[string]any): succeeds on an object and on null
UnmarshalsToMap(r) == r.kind \in {"object", "null"}
\* the map it leaves behind (null leaves the nil map)
MapOf(r) == IF r.kind = "object" THEN r.fields ELSE <<>>

\* json.Marshal of a map[string]any: a nil map encodes as null
MarshalMap(m, isNil) == IF isNil THEN JNull ELSE JObj(m)

(* Output schemas (OutputSchema / PropertySchema); a nil pointer is <<>> *)

StringProp == [Type |-> "string", Items |-> <<>>, Properties |-> <<>>, Enum |-> <<>>]
NumberProp == [Type |-> "number", Items |-> <<>>, Properties |-> <<>>, Enum |-> <<>>]
EnumProp == [Type |-> "string", Items |-> <<>>, Properties |-> <<>>, Enum |-> <<"yes", "no">>]
ArrayProp == [Type |-> "array", Items |-> <<StringProp>>, Properties |-> <<>>, Enum |-> <<>>]
ObjectProp == [Type |-> "object", Items |-> <<>>, Properties |-> [n |-> NumberProp], Enum |-> <<>>]

AnswerSchema ==
    [Type |-> "object", Properties |-> [answer |-> StringProp], Required |-> <<"answer">>]
TypedSchema ==
    [Type |-> "object",
     Properties |-> [answer |-> EnumProp, tags |-> ArrayProp, meta |-> ObjectProp],
     Required |-> <<"answer">>]
OptionalSchema ==
    [Type |-> "object", Properties |-> [answer |-> StringProp], Required |-> <<>>]

validateResponseJSONOnly(sk, resp) ==
    IF sk.Output = <<>> THEN ""
    ELSE IF ~UnmarshalsToMap(resp) THEN "response is not valid JSON"
    ELSE ""
\* SDK.validateResponse: "" is nil
validateResponse(sk, resp) ==
    IF sk.Output = <<>> THEN ""
    ELSE IF ~UnmarshalsToMap(resp) THEN "response is not valid JSON"
    ELSE IF \E i \in 1..Len(sk.Output[1].Required) :
                sk.Output[1].Required[i] \notin DOMAIN MapOf(resp)
         THEN "missing required field"
    ELSE ""

----------------------------------------------------------------------------
(* Strings the router inspects are sequences of characters *)

ToLowerChar(c) ==
    IF c = "P" THEN "p" ELSE IF c = "R" THEN "r" ELSE IF c = "O" THEN "o" ELSE c
ToLower(s) == [i \in 1..Len(s) |-> ToLowerChar(s[i])]
Contains(s, sub) ==
    \E i \in 1..(Len(s) - Len(sub) + 1) : SubSeq(s, i, i + Len(sub) - 1) = sub

(* The tool registry (tools.Registry) the SDK is built with *)

RegSources == {"get_weather", "search"}
RegActions == {"send_email", "create_ticket", "search"}   \* "search" is in both maps
RequiresConfirmation(name) == name = "create_ticket"

RECURSIVE GetForSkillFromSkipping(_, _, _, _)
GetForSkillFromSkipping(toolNames, i, srcs, acts) ==
    IF i > Len(toolNames) THEN [sources |-> srcs, actions |-> acts, err |-> "", unknown |-> ""]
    ELSE IF toolNames[i] \in RegSources
         THEN GetForSkillFromSkipping(toolNames, i + 1, Append(srcs, toolNames[i]), acts)
    ELSE IF toolNames[i] \in RegActions
         THEN GetForSkillFromSkipping(toolNames, i + 1, srcs, Append(acts, toolNames[i]))
    ELSE GetForSkillFromSkipping(toolNames, i + 1, srcs, acts)
\* tools.Registry.GetForSkill: partitions the names, fails on the first unknown one
\* (unknown is the name the error text ends with)
RECURSIVE GetForSkillFrom(_, _, _, _)
GetForSkillFrom(toolNames, i, srcs, acts) ==
    IF i > Len(toolNames) THEN [sources |-> srcs, actions |-> acts, err |-> "", unknown |-> ""]
    ELSE IF toolNames[i] \in RegSources
         THEN GetForSkillFrom(toolNames, i + 1, Append(srcs, toolNames[i]), acts)
    ELSE IF toolNames[i] \in RegActions
         THEN GetForSkillFrom(toolNames, i + 1, srcs, Append(acts, toolNames[i]))
    ELSE [sources |-> <<>>, actions |-> <<>>, err |-> ErrToolNotFound,
          unknown |-> toolNames[i]]
GetForSkill(toolNames) == GetForSkillFrom(toolNames, 1, <<>>, <<>>)

SeqToSet(s) == {s[i] : i \in 1..Len(s)}

(* The skill registry, the hook registry and the experts the SDK is built with. *)
(* One skill per combination of: output schema, pre-hook, post-hook, expert.    *)

SkillDefs ==
    {[ID |-> o \o p \o q \o e, out |-> o, pre |-> p = "1", post |-> q = "1", expert |-> e,
      Mode |-> "", Triggers |-> {}, Tools |-> <<"get_weather", "send_email", "create_ticket">>] :
        o \in {"n", "a"}, p \in {"0", "1"}, q \in {"0", "1"}, e \in {"n", "f", "p", "b"}}
    \cup
    {[ID |-> "mode-expert", out |-> "a", pre |-> FALSE, post |-> FALSE, expert |-> "n",
      Mode |-> ModeExpert, Triggers |-> {<<"p", "r", "o", "d">>},
      Tools |-> <<"get_weather">>],
     [ID |-> "mode-agentic", out |-> "a", pre |-> FALSE, post |-> FALSE, expert |-> "n",
      Mode |-> ModeAgentic, Triggers |-> {<<"R", "O">>},
      Tools |-> <<"get_weather", "create_ticket">>],
     [ID |-> "bad-tools", out |-> "n", pre |-> FALSE, post |-> FALSE, expert |-> "n",
      Mode |-> ModeAgentic, Triggers |-> {},
      Tools |-> <<"get_weather", "missing_tool">>],
     [ID |-> "ab", out |-> "a", pre |-> FALSE, post |-> FALSE, expert |-> "n",
      Mode |-> "", Triggers |-> {}, Tools |-> <<"create_ticket">>],
     [ID |-> "ab0", out |-> "a", pre |-> FALSE, post |-> FALSE, expert |-> "n",
      Mode |-> "", Triggers |-> {}, Tools |-> <<"get_weather">>]}

\* Skill.Variants of the skills that declare variants
VariantsOf(id) ==
    IF id = "ab" THEN <<[Variant |-> "A", Weight |-> 1], [Variant |-> "B", Weight |-> 2]>>
    ELSE IF id = "ab0" THEN <<[Variant |-> "A", Weight |-> 0], [Variant |-> "B", Weight |-> 0]>>
    ELSE <<>>

\* the Skill value of a definition
SkillOf(d) ==
    [ID |-> d.ID, Triggers |-> d.Triggers, Tools |-> d.Tools, Mode |-> d.Mode,
     Output |-> IF d.out = "a" THEN <<AnswerSchema>> ELSE <<>>, Variants |-> VariantsOf(d.ID)]
Skills == {SkillOf(d) : d \in SkillDefs}
NoSkill ==
    [ID |-> "", Triggers |-> {}, Tools |-> <<>>, Mode |-> "", Output |-> <<>>, Variants |-> <<>>]

\* skills.Registry.Get
SkillsGet(id) == {s \in Skills : s.ID = id}
\* skills.Registry.Match: the skills one of whose triggers occurs in the lowered message
matchesSkill(sk, messageLower) ==
    \E t \in sk.Triggers : Contains(messageLower, ToLower(t))
Match(message) == {s \in Skills : matchesSkill(s, ToLower(message))}

\* HookRegistry.GetPreprocess / GetPostprocess, and SDK.experts[skill.ID]
GetPreprocess(id) == \E d \in SkillDefs : d.ID = id /\ d.pre
GetPostprocess(id) == \E d \in SkillDefs : d.ID = id /\ d.post
HasFetcher(id) == \E d \in SkillDefs : d.ID = id /\ d.expert \in {"f", "b"}
HasPostProcess(id) == \E d \in SkillDefs : d.ID = id /\ d.expert \in {"p", "b"}

(* Errors: the code of the SDKError errors.As finds, its message, cause and details *)

NoErr == [Code |-> "", Msg |-> "", Cause |-> "", Details |-> <<>>]
NewSDKError(code, msg, cause) == [Code |-> code, Msg |-> msg, Cause |-> cause, Details |-> <<>>]
NewNotFoundError(resource, identifier) ==
    [Code |-> ErrCodeNotFound, Msg |-> "not found", Cause |-> "",
     Details |-> [resource |-> resource, identifier |-> identifier]]
NewToolError(toolName, cause) ==
    [Code |-> ErrCodeToolExecution, Msg |-> "tool execution failed", Cause |-> cause,
     Details |-> [tool |-> toolName]]
\* fmt.Errorf("...: %w", err) around a plain error
Errorf(msg) == [Code |-> "", Msg |-> msg, Cause |-> "", Details |-> <<>>]
\* httpHandler.handleError: the code written for an error Chat returned; err.(*SDKError)
\* looks at the error itself, not at what it wraps
handleError(e) == IF e.Code # "" /\ e.Msg # "routing failed" THEN e.Code ELSE ErrCodeInternal
ErrCodeValidation == "VALIDATION_ERROR"
ErrCodeTimeout == "TIMEOUT_ERROR"
StatusBadRequest == 400
StatusNotFound == 404
StatusInternalServerError == 500
StatusGatewayTimeout == 504
\* httpHandler.errorCodeToStatus
errorCodeToStatus(code) ==
    CASE code = ErrCodeValidation -> StatusBadRequest
      [] code = ErrCodeNotFound -> StatusNotFound
      [] code = ErrCodeRouting -> StatusBadRequest
      [] code = ErrCodeTimeout -> StatusGatewayTimeout
      [] OTHER -> StatusInternalServerError
\* httpHandler.handleError: the status written for an error Chat returned
handleErrorStatus(e) ==
    IF e.Code # "" /\ e.Msg # "routing failed"
    THEN errorCodeToStatus(e.Code)
    ELSE StatusInternalServerError
ErrMaxTurnsExceeded == "maximum agent turns exceeded"
ErrNoSkillMatched == "no skill matched the message"

(* Config.withDefaults, on the fields the engine reads *)
withDefaults(c) ==
    [c EXCEPT !.ExecutionMode = IF @ = "" THEN ModeExpert ELSE @,
              !.MaxAgentTurns = IF @ <= 0 THEN DefaultMaxAgentTurns ELSE @]

RouteDefaultFirst(message, defaultSkillID) ==
    IF defaultSkillID # "" /\ SkillsGet(defaultSkillID) # {} THEN SkillsGet(defaultSkillID)
    ELSE IF Match(message) # {} THEN Match(message)
    ELSE {NoSkill}
\* Router.Route: the candidates; Match walks a Go map, so any match may come first
Route(message, defaultSkillID) ==
    IF Match(message) # {} THEN Match(message)
    ELSE IF defaultSkillID # "" /\ SkillsGet(defaultSkillID) # {} THEN SkillsGet(defaultSkillID)
    ELSE {NoSkill}

\* SDK.routeToSkill: the possible outcomes [skill, err]
routeToSkill(r, c) ==
    IF r.SkillID # ""
    THEN IF SkillsGet(r.SkillID) = {}
         THEN {[skill |-> NoSkill, err |-> NewNotFoundError("skill", r.SkillID)]}
         ELSE {[skill |-> s, err |-> NoErr] : s \in SkillsGet(r.SkillID)}
    ELSE {[skill |-> s,
           err |-> IF s = NoSkill
                   THEN NewSDKError(ErrCodeRouting, "no skill matched", ErrNoSkillMatched)
                   ELSE NoErr] : s \in Route(r.Message, c.DefaultSkillID)}

determineModeSkillFirst(r, sk, c) ==
    IF sk.Mode # "" THEN sk.Mode
    ELSE IF r.Mode # "" THEN r.Mode
    ELSE c.ExecutionMode
\* SDK.determineMode
determineMode(r, sk, c) ==
    IF r.Mode # "" THEN r.Mode
    ELSE IF sk.Mode # "" THEN sk.Mode
    ELSE c.ExecutionMode

(* SDK.selectVariant *)

Clock == 0..MaxClock
RECURSIVE SumRunes(_)
SumRunes(userID) == IF userID = <<>> THEN 0 ELSE Head(userID) + SumRunes(Tail(userID))
RECURSIVE totalWeight(_)
totalWeight(vs) == IF vs = <<>> THEN 0 ELSE Head(vs).Weight + totalWeight(Tail(vs))
\* Go's % on integers: the result has the sign of the dividend
GoRem(a, b) ==
    LET d == IF b < 0 THEN -b ELSE b
    IN IF a >= 0 THEN a % d ELSE -((-a) % d)
\* the loop over skill.Variants with its running sum, and the fallback after it
RECURSIVE pickCumulative(_, _, _, _)
pickCumulative(vs, i, cumulative, target) ==
    IF i > Len(vs) THEN vs[1]
    ELSE IF target < cumulative + vs[i].Weight THEN vs[i]
    ELSE pickCumulative(vs, i + 1, cumulative + vs[i].Weight, target)
requestedAmongNone(vs, requestedVariant) == <<>>
\* the variants whose id is the requested one, first to last
requestedAmong(vs, requestedVariant) ==
    SelectSeq(vs, LAMBDA v : v.Variant = requestedVariant)
\* SDK.selectVariant at clock value now; out = "panic" is the integer divide by zero
selectVariant(variants, requestedVariant, userID, now) ==
    IF requestedVariant # "" /\ requestedAmong(variants, requestedVariant) # <<>>
    THEN [out |-> "variant", v |-> Head(requestedAmong(variants, requestedVariant))]
    ELSE IF Len(variants) = 0
    THEN [out |-> "variant", v |-> [Variant |-> "", Weight |-> 0]]
    ELSE IF totalWeight(variants) = 0
    THEN [out |-> "panic", v |-> [Variant |-> "", Weight |-> 0]]
    ELSE [out |-> "variant",
          v |-> pickCumulative(variants, 1, 0,
                               GoRem(now + SumRunes(userID), totalWeight(variants)))]

----------------------------------------------------------------------------
(* SDK.Chat *)

ZeroResult ==    \* ChatResult{}
    [MessageID |-> "", SkillID |-> "", Mode |-> "", ToolCalls |-> <<>>,
     Response |-> JEmpty, SuggestedAction |-> <<>>, ConversationID |-> "", Variant |-> ""]
NewConversationID == "uuid"     \* a fresh id, never the empty string
NoCtx == [err |-> "", at |-> ""]
NoRan ==
    [fetcher |-> FALSE, pre |-> FALSE, post |-> FALSE, postProcess |-> FALSE,
     final |-> <<>>, userStored |-> FALSE, asstStored |-> FALSE, refused |-> {},
     data |-> "nil", preData |-> "", promptData |-> "", postData |-> "", hookErr |-> ""]

(* Conversation ids: validateID works on the characters of the id *)
MaxIDLength == 255
UnsafeID == "../x"
HyphenID == "-c"
LongID == "aaa...a"      \* MaxIDLength + 1 times the letter a
\* the characters of the ids of the model
IDText(id) ==
    CASE id = "c1" -> <<"c", "1">>
      [] id = "c2" -> <<"c", "2">>
      [] id = "uuid" -> <<"u", "u", "i", "d">>
      [] id = UnsafeID -> <<".", ".", "/", "x">>
      [] id = HyphenID -> <<"-", "c">>
      [] id = LongID -> [i \in 1..(MaxIDLength + 1) |-> "a"]
      [] OTHER -> <<>>
Alnum == {"a", "c", "d", "i", "u", "x", "1", "2"}
\* validIDPattern: ^[a-zA-Z0-9][-a-zA-Z0-9]*[a-zA-Z0-9]$|^[a-zA-Z0-9]$
validIDPattern(t) ==
    /\ Len(t) >= 1
    /\ t[1] \in Alnum /\ t[Len(t)] \in Alnum
    /\ \A i \in 1..Len(t) : t[i] \in Alnum \cup {"-"}
ErrInvalidID == "invalid ID"
\* validateID: "" for nil
validateID(t) ==
    IF t = <<>> THEN ErrInvalidID
    ELSE IF Len(t) > MaxIDLength THEN ErrInvalidID
    ELSE IF \E i \in 1..Len(t) : t[i] = "/" THEN ErrInvalidID     \* filepath.Base(id) != id
    ELSE IF ~validIDPattern(t) THEN ErrInvalidID
    ELSE ""

Contents ==      \* what the LM may return as content
    {JInvalid, JNull, JObj([answer |-> JStr("a")]), JObj([text |-> JStr("a")])}
Messages == {<<"x">>, <<"P", "r", "o", "d">>}
\* Config.MaxMessageLength, scaled down (the default is 10000): the longest message
\* the engine is meant to accept
MaxMessageLength == 4
LMToolNames == {"get_weather", "send_email", "create_ticket", "unknown_tool"}
\* Cancellable: the caller's context can be cancelled or has a deadline
\* the mode is left open, agentic or unknown only for skills without an expert: the
\* expert is not consulted outside expert mode
Requests ==
    {[Message |-> <<"x">>, SkillID |-> id, Mode |-> ModeExpert, ConversationID |-> "",
      Variant |-> "", UserID |-> <<>>, Cancellable |-> FALSE] :
        id \in {d.ID : d \in SkillDefs} \cup {"nope"}}
    \cup {[Message |-> <<"x">>, SkillID |-> id, Mode |-> m, ConversationID |-> "",
           Variant |-> "", UserID |-> <<>>, Cancellable |-> FALSE] :
             id \in {d.ID : d \in {x \in SkillDefs : x.expert = "n"}} \cup {"nope"},
             m \in {"", ModeAgentic, "bogus"}}
    \cup {[Message |-> msg, SkillID |-> "", Mode |-> "", ConversationID |-> c, Variant |-> "",
           UserID |-> <<>>, Cancellable |-> FALSE] : msg \in Messages, c \in {"", "c1"}}
    \cup {[Message |-> <<"x">>, SkillID |-> "ab", Mode |-> m, ConversationID |-> "c1",
           Variant |-> v, UserID |-> <<1>>, Cancellable |-> FALSE] :
             m \in {ModeExpert, ModeAgentic}, v \in {"B", "nope"}}
    \cup {[Message |-> <<"x">>, SkillID |-> "n00n", Mode |-> ModeAgentic, ConversationID |-> "c1",
           Variant |-> "", UserID |-> <<>>, Cancellable |-> TRUE]}
    \cup {[Message |-> msg, SkillID |-> "n00n", Mode |-> ModeExpert, ConversationID |-> "",
           Variant |-> "", UserID |-> <<>>, Cancellable |-> FALSE] :
             msg \in {<<>>, <<"l", "o", "n", "g", "x">>}}
    \cup {[Message |-> <<"x">>, SkillID |-> "n00n", Mode |-> ModeExpert, ConversationID |-> c,
           Variant |-> "", UserID |-> <<>>, Cancellable |-> FALSE] :
             c \in {UnsafeID, HyphenID, LongID}}

\* the tool calls of one LM response: 1..MaxCallsPerResponse calls
CallsOfLen(n) == [1..n -> [Name : LMToolNames, Args : {"ok", "bad"}]]
CallSeqs(made) ==
    IF made < MaxVaried
    THEN UNION {CallsOfLen(n) : n \in 1..MaxCallsPerResponse}
    ELSE {<<[Name |-> "get_weather", Args |-> "ok"]>>}
\* the LM's ids are distinct; the k-th call emitted in a request is given id k
WithIDs(calls, from) ==
    [i \in 1..Len(calls) |-> [ID |-> from + i, Name |-> calls[i].Name, Args |-> calls[i].Args]]

\* return ChatResult{}, e
Fail(e) ==
    /\ pc' = "done"
    /\ err' = e
    /\ result' = ZeroResult

\* return res, nil from executeExpertMode / executeAgenticMode; Chat fills in the rest
Return(res) ==
    /\ pc' = "store_user"
    /\ err' = NoErr
    /\ result' = [res EXCEPT !.SkillID = skill.ID, !.Mode = mode,
                             !.ConversationID = IF req.ConversationID = ""
                                                THEN NewConversationID
                                                ELSE req.ConversationID]

LoopContinuesOffByOne(t, c) == t <= c.MaxAgentTurns
\* the loop condition of the agent loop
LoopContinues(t, c) == t < c.MaxAgentTurns

\* where executeExpertMode goes after the fetcher, executeAgenticMode after GetForSkill
AfterFetch(id) == IF GetPreprocess(id) THEN "pre" ELSE "llm"
\* where both go after a validated response
AfterValidate(id, m) ==
    IF GetPostprocess(id) THEN "post"
    ELSE IF m = ModeExpert /\ HasPostProcess(id) THEN "postprocess"
    ELSE "return"
AfterPost(id, m) == IF m = ModeExpert /\ HasPostProcess(id) THEN "postprocess" ELSE "return"

Chat(r) ==
    /\ prog = "sdk" /\ pc = "idle"
    /\ req' = r
    /\ \E o \in routeToSkill(r, cfg) :
        /\ skill' = o.skill
        /\ IF o.err # NoErr
           THEN /\ Fail([o.err EXCEPT !.Msg = "routing failed"])
                /\ mode' = ""
           ELSE LET m == determineMode(r, o.skill, cfg) IN
                /\ mode' = m
                /\ err' = NoErr
                /\ result' = ZeroResult
                /\ IF m = ModeExpert
                   THEN pc' = IF HasFetcher(o.skill.ID) THEN "fetch" ELSE AfterFetch(o.skill.ID)
                   ELSE IF m = ModeAgentic
                   THEN pc' = "agentic"
                   ELSE pc' = "badmode"
    /\ UNCHANGED <<prog, cfg, turn, lmCalls, emitted, pending, toolCalls, invoked, response,
                   storage, ran, ctx, variant, agentVars, valVars, libVars, toolVars, chatVars, moreVars>>

\* the default branch of the switch in Chat
UnknownMode ==
    /\ prog = "sdk" /\ pc = "badmode"
    /\ Fail(NewSDKError(ErrCodeConfiguration, "unknown execution mode", ""))
    /\ UNCHANGED <<prog, cfg, req, skill, mode, turn, lmCalls, emitted, pending, toolCalls,
                   invoked, response, storage, ran, ctx, variant, agentVars, valVars, libVars, toolVars, chatVars, moreVars>>

\* executeAgenticMode up to the pre-hook: selectVariant, GetForSkill
AgenticStart ==
    /\ prog = "sdk" /\ pc = "agentic"
    /\ \E now \in Clock :
         LET sel == selectVariant(skill.Variants, req.Variant, req.UserID, now) IN
         IF sel.out = "panic"
         THEN pc' = "panic" /\ UNCHANGED <<err, result, variant>>
         ELSE /\ variant' = <<sel.v>>
              /\ IF GetForSkill(skill.Tools).err # ""
                 THEN Fail(Errorf(GetForSkill(skill.Tools).err))
                 ELSE /\ pc' = IF GetPreprocess(skill.ID) THEN "pre" ELSE "loop"
                      /\ UNCHANGED <<err, result>>
    /\ UNCHANGED <<prog, cfg, req, skill, mode, turn, lmCalls, emitted, pending, toolCalls,
                   invoked, response, storage, ran, ctx, agentVars, valVars, libVars, toolVars, chatVars, moreVars>>

\* the names an expert's fetcher may hand to its ToolExecutor
FetcherNames == {"get_weather", "search", "send_email", "unknown_tool"}
ExecutorResolvesActions(name) == name \in RegSources \cup RegActions
\* toolExecutorImpl.Execute: whether t.tools.GetSource(toolName) finds the name
ExecutorResolves(name) == name \in RegSources

\* toolExecutorImpl.Execute, called by the expert's fetcher: a name GetSource does not
\* find gets the not-found error (ran.refused), any other has its Fetch invoked and
\* the call recorded
FetcherExecute(name) ==
    /\ prog = "sdk" /\ pc = "fetch"
    /\ Len(toolCalls) + Cardinality(ran.refused) < MaxFetcherCalls
    /\ IF ExecutorResolves(name)
       THEN /\ invoked' = Append(invoked, [ID |-> 0, Name |-> name])
            /\ toolCalls' = Append(toolCalls,
                                   [Name |-> name, Params |-> 0, Duration |-> "measured"])
            /\ ran' = [ran EXCEPT !.fetcher = TRUE]
       ELSE /\ ran' = [ran EXCEPT !.fetcher = TRUE, !.refused = @ \cup {name}]
            /\ UNCHANGED <<invoked, toolCalls>>
    /\ UNCHANGED <<prog, cfg, pc, req, skill, mode, turn, lmCalls, emitted, pending, response,
                   result, err, storage, ctx, variant, agentVars, valVars, libVars, toolVars, chatVars, moreVars>>

\* the expert's fetcher returns (its data, or an error)
FetcherReturn(ok) ==
    /\ prog = "sdk" /\ pc = "fetch"
    /\ ran' = [ran EXCEPT !.fetcher = TRUE, !.data = IF ok THEN "fetched" ELSE @]
    /\ IF ok
       THEN pc' = AfterFetch(skill.ID) /\ UNCHANGED <<err, result>>
       ELSE Fail(NewToolError("expert fetcher", "fetcher"))
    /\ UNCHANGED <<prog, cfg, req, skill, mode, turn, lmCalls, emitted, pending, toolCalls,
                   invoked, response, storage, ctx, variant, agentVars, valVars, libVars, toolVars, chatVars, moreVars>>

\* what a pre-hook leaves in PreprocessRequest.Data
PreprocessOutcomes == {"error", "keep", "rewrite"}
PreprocessData(given, out) == IF out = "rewrite" THEN "rewritten" ELSE given
DataAfterPreDropped(fetched, hookData) == fetched
\* fetchedData = preprocessReq.Data after the hook returned
DataAfterPre(fetched, hookData) == hookData

PreHookNeverAborts(out) == FALSE
\* if err := preprocessHook(ctx, preprocessReq); err != nil
PreHookAborts(out) == out = "error"

\* the pre-hook, in either mode (Data is fetchedData, which is nil in agentic mode)
PreprocessHook(out) ==
    /\ prog = "sdk" /\ pc = "pre"
    /\ ran' = [ran EXCEPT !.pre = TRUE,
                          !.hookErr = IF out = "error" THEN "pre" ELSE @,
                          !.preData = PreprocessData(ran.data, out),
                          !.data = IF PreHookAborts(out) THEN @
                                   ELSE DataAfterPre(@, PreprocessData(@, out))]
    /\ IF ~PreHookAborts(out)
       THEN pc' = (IF mode = ModeExpert THEN "llm" ELSE "loop") /\ UNCHANGED <<err, result>>
       ELSE Fail(Errorf("preprocess hook failed"))
    /\ UNCHANGED <<prog, cfg, req, skill, mode, turn, lmCalls, emitted, pending, toolCalls,
                   invoked, response, storage, ctx, variant, agentVars, valVars, libVars, toolVars, chatVars, moreVars>>


\* SDK.ExecuteSkill as called by executeExpertMode: the one LM call and its validation
ExecuteSkill(lm) ==
    /\ prog = "sdk" /\ pc = "llm"
    /\ \E now \in Clock :
         LET sel == selectVariant(skill.Variants, req.Variant, req.UserID, now) IN
         IF sel.out = "panic"
         THEN /\ pc' = "panic"
              /\ UNCHANGED <<lmCalls, response, ran, err, result, variant>>
         ELSE
         /\ variant' = <<sel.v>>
         /\ lmCalls' = lmCalls + 1
         /\ IF lm.kind = "error"
            THEN /\ Fail(NewSDKError(ErrCodeLLM, "chat completion failed", "llm"))
                 /\ ran' = [ran EXCEPT !.promptData = ran.data]
                 /\ UNCHANGED response
            ELSE /\ ran' = [ran EXCEPT !.final = <<lm.content>>, !.promptData = ran.data]
                 /\ IF validateResponse(skill, lm.content) # ""
                    THEN /\ Fail(NewSDKError(ErrCodeSchema, "response validation failed",
                                             validateResponse(skill, lm.content)))
                         /\ UNCHANGED response
                    ELSE /\ response' = lm.content
                         /\ pc' = AfterValidate(skill.ID, mode)
                         /\ UNCHANGED <<err, result>>
    /\ UNCHANGED <<prog, cfg, req, skill, mode, turn, emitted, pending, toolCalls, invoked,
                   storage, ctx, agentVars, valVars, libVars, toolVars, chatVars, moreVars>>

\* one iteration of the agent loop up to the inspection of the LM's message
ChatCompletion(lm) ==
    /\ prog = "sdk" /\ pc = "loop"
    /\ LoopContinues(turn, cfg)
    /\ lmCalls' = lmCalls + 1
    /\ CASE lm.kind = "error" ->
              /\ Fail(NewSDKError(ErrCodeLLM, "chat completion failed", "llm"))
              /\ ran' = [ran EXCEPT !.promptData = ran.data]
              /\ UNCHANGED <<response, pending, emitted>>
         [] lm.kind = "tools" ->
              /\ pending' = WithIDs(lm.calls, emitted)
              /\ emitted' = emitted + Len(lm.calls)
              /\ pc' = "tools"
              /\ ran' = [ran EXCEPT !.promptData = ran.data]
              /\ UNCHANGED <<response, err, result>>
         [] lm.kind = "content" ->
              /\ ran' = [ran EXCEPT !.final = <<lm.content>>, !.promptData = ran.data]
              /\ UNCHANGED <<pending, emitted>>
              /\ IF validateResponse(skill, lm.content) # ""
                 THEN /\ Fail(NewSDKError(ErrCodeSchema, "response validation failed",
                                          validateResponse(skill, lm.content)))
                      /\ UNCHANGED response
                 ELSE /\ response' = lm.content
                      /\ pc' = AfterValidate(skill.ID, mode)
                      /\ UNCHANGED <<err, result>>
    /\ UNCHANGED <<prog, cfg, req, skill, mode, turn, toolCalls, invoked, storage, ctx, variant, agentVars, valVars, libVars, toolVars, chatVars, moreVars>>

\* the loop ran out of turns
MaxTurnsExceeded ==
    /\ prog = "sdk" /\ pc = "loop"
    /\ ~LoopContinues(turn, cfg)
    /\ Fail(NewSDKError(ErrCodeInternal, "max agent turns exceeded", ErrMaxTurnsExceeded))
    /\ UNCHANGED <<prog, cfg, req, skill, mode, turn, lmCalls, emitted, pending, toolCalls,
                   invoked, response, storage, ran, ctx, variant, agentVars, valVars, libVars, toolVars, chatVars, moreVars>>

ToolKindIgnoringConfirmation(name, sources, actions) ==
    IF name \in SeqToSet(sources) THEN "source"
    ELSE IF name \in SeqToSet(actions) THEN "action"
    ELSE "unknown"
\* SDK.executeToolCall: what the name resolves to among the skill's sources and actions
ToolKind(name, sources, actions) ==
    IF name \in SeqToSet(sources) THEN "source"
    ELSE IF name \in SeqToSet(actions)
         THEN IF RequiresConfirmation(name) THEN "confirm" ELSE "action"
    ELSE "unknown"

\* the ToolCall executeToolCall builds for a call
NewToolCall(call) == [Name |-> call.Name, Params |-> call.ID, Duration |-> "unset"]
Timed(tc) == [tc EXCEPT !.Duration = "measured"]

appendToolCallInFront(calls, tc) == <<tc>> \o calls
\* toolCalls = append(toolCalls, tc) in the loop
appendToolCall(calls, tc) == Append(calls, tc)

\* the result the loop returns when an action asks for confirmation
ConfirmationResult(calls, call, tc) ==
    [ZeroResult EXCEPT !.MessageID = "msg", !.ToolCalls = calls, !.Variant = variant[1].Variant,
        !.SuggestedAction = <<[Tool |-> call.Name, Params |-> tc.Params,
                               Reason |-> "Action requires user confirmation"]>>]

\* the loop body for the next tool call of the LM's message (executeToolCall and what
\* the loop does with its outcome); executorOK is what Fetch / Execute returns
ExecuteToolCall(executorOK) ==
    /\ prog = "sdk" /\ pc = "tools"
    /\ LET call == Head(pending)
           tools == GetForSkill(skill.Tools)
           kind == ToolKind(call.Name, tools.sources, tools.actions)
           tc == NewToolCall(call)
       IN
       IF call.Args = "bad"
       THEN /\ Fail(NewToolError(call.Name, "invalid arguments"))
            /\ UNCHANGED <<pending, toolCalls, invoked, turn>>
       ELSE IF kind = "unknown"
       THEN /\ Fail(NewNotFoundError("tool", call.Name))
            /\ UNCHANGED <<pending, toolCalls, invoked, turn>>
       ELSE IF kind = "confirm"
       THEN /\ Return(ConfirmationResult(toolCalls, call, Timed(tc)))
            /\ UNCHANGED <<pending, toolCalls, invoked, turn>>
       ELSE /\ invoked' = Append(invoked, [ID |-> call.ID, Name |-> call.Name])
            /\ IF ~executorOK
               THEN /\ Fail(NewToolError(call.Name, "executor"))
                    /\ UNCHANGED <<pending, toolCalls, turn>>
               ELSE /\ toolCalls' = appendToolCall(toolCalls, Timed(tc))
                    /\ pending' = Tail(pending)
                    /\ IF Tail(pending) = <<>>
                       THEN pc' = "loop" /\ turn' = turn + 1
                       ELSE pc' = "tools" /\ turn' = turn
                    /\ UNCHANGED <<err, result>>
    /\ UNCHANGED <<prog, cfg, req, skill, mode, lmCalls, emitted, response, storage, ran,
                   ctx, variant, agentVars, valVars, libVars, toolVars, chatVars, moreVars>>


RemoveKey(m, k) == [x \in (DOMAIN m) \ {k} |-> m[x]]
WithKey(m, k, v) == [x \in (DOMAIN m) \cup {k} |-> IF x = k THEN v ELSE m[x]]

\* what the post-hook leaves in PostprocessRequest.Response, re-serialised:
\* the map parsed from the response (a fresh empty map when it does not parse)
HookOutcomes == {"keep", "drop", "add", "nil"}
Remarshal(resp, change) ==
    LET parsed == UnmarshalsToMap(resp)
        isNil == parsed /\ resp.kind = "null"
        m == IF parsed THEN MapOf(resp) ELSE <<>>
    IN CASE change = "keep" -> MarshalMap(m, isNil)
         [] change = "drop" -> MarshalMap(RemoveKey(m, "answer"), isNil)
         [] change = "add" -> MarshalMap(WithKey(m, "extra", JStr("e")), FALSE)
         [] change = "nil" -> JNull

\* the post-hook, in either mode; change = "error" is the hook failing
PostprocessHook(change) ==
    /\ prog = "sdk" /\ pc = "post"
    /\ ran' = [ran EXCEPT !.post = TRUE, !.postData = ran.data,
                          !.hookErr = IF change = "error" THEN "post" ELSE @]
    /\ IF change = "error"
       THEN /\ Fail(Errorf("postprocess hook failed"))
            /\ UNCHANGED response
       ELSE /\ response' = Remarshal(response, change)
            /\ pc' = AfterPost(skill.ID, mode)
            /\ UNCHANGED <<err, result>>
    /\ UNCHANGED <<prog, cfg, req, skill, mode, turn, lmCalls, emitted, pending, toolCalls,
                   invoked, storage, ctx, variant, agentVars, valVars, libVars, toolVars, chatVars, moreVars>>

\* json.Marshal(expertResult): ExpertResult carries no json tags
MarshalExpertResult(suggests) ==
    JObj([Answer |-> JStr("a"), Details |-> JNull,
          SuggestedAction |-> IF suggests THEN JObj([tool |-> JStr("t")]) ELSE JNull])

\* the expert's PostProcess and the return of executeExpertMode that follows it
ExpertPostProcess(outcome) ==
    /\ prog = "sdk" /\ pc = "postprocess"
    /\ ran' = [ran EXCEPT !.postProcess = TRUE]
    /\ IF outcome = "error"
       THEN /\ Fail(Errorf("expert post-processing failed"))
            /\ UNCHANGED response
       ELSE /\ response' = MarshalExpertResult(outcome = "suggest")
            /\ Return([ZeroResult EXCEPT !.MessageID = "msg", !.ToolCalls = toolCalls,
                         !.Variant = variant[1].Variant,
                         !.Response = MarshalExpertResult(outcome = "suggest"),
                         !.SuggestedAction =
                             IF outcome = "suggest"
                             THEN <<[Tool |-> "t", Params |-> 0, Reason |-> "expert"]>>
                             ELSE <<>>])
    /\ UNCHANGED <<prog, cfg, req, skill, mode, turn, lmCalls, emitted, pending, toolCalls,
                   invoked, storage, ctx, variant, agentVars, valVars, libVars, toolVars, chatVars, moreVars>>

\* the final return of executeExpertMode (no PostProcess) and of executeAgenticMode
ReturnResult ==
    /\ prog = "sdk" /\ pc = "return"
    /\ Return([ZeroResult EXCEPT !.MessageID = "msg", !.ToolCalls = toolCalls,
                 !.Variant = variant[1].Variant, !.Response = response])
    /\ UNCHANGED <<prog, cfg, req, skill, mode, turn, lmCalls, emitted, pending, toolCalls,
                   invoked, response, storage, ran, ctx, variant, agentVars, valVars, libVars, toolVars, chatVars, moreVars>>

ChatFailsOnStoreError(storeFailed, res) ==
    IF storeFailed
    THEN [result |-> ZeroResult, err |-> NewSDKError("STORAGE_ERROR", "failed to store messages", "")]
    ELSE [result |-> res, err |-> NoErr]
\* SDK.Chat after storeMessages returned: an error is logged, the result is returned
ChatAfterStore(storeFailed, res) == [result |-> res, err |-> NoErr]

\* SDK.storeMessages, first AddMessage: the user message
StoreUserMessage(ok) ==
    /\ prog = "sdk" /\ pc = "store_user"
    /\ IF ok
       THEN /\ storage' = Append(storage, [Role |-> "user", Content |-> JStr("q"), SkillID |-> "",
                                           Variant |-> ""])
            /\ ran' = [ran EXCEPT !.userStored = TRUE]
            /\ pc' = "store_assistant"
            /\ UNCHANGED <<result, err>>
       ELSE /\ pc' = "done"
            /\ result' = ChatAfterStore(TRUE, result).result
            /\ err' = ChatAfterStore(TRUE, result).err
            /\ UNCHANGED <<storage, ran>>
    /\ UNCHANGED <<prog, cfg, req, skill, mode, turn, lmCalls, emitted, pending, toolCalls,
                   invoked, response, ctx, variant, agentVars, valVars, libVars, toolVars, chatVars, moreVars>>

\* SDK.storeMessages, second AddMessage: the assistant message; then Chat returns
StoreAssistantMessage(ok) ==
    /\ prog = "sdk" /\ pc = "store_assistant"
    /\ IF ok
       THEN /\ storage' = Append(storage, [Role |-> "assistant", Content |-> result.Response,
                                           SkillID |-> result.SkillID,
                                           Variant |-> result.Variant])
            /\ ran' = [ran EXCEPT !.asstStored = TRUE]
       ELSE UNCHANGED <<storage, ran>>
    /\ pc' = "done"
    /\ result' = ChatAfterStore(~ok, result).result
    /\ err' = ChatAfterStore(~ok, result).err
    /\ UNCHANGED <<prog, cfg, req, skill, mode, turn, lmCalls, emitted, pending, toolCalls,
                   invoked, response, ctx, variant, agentVars, valVars, libVars, toolVars, chatVars, moreVars>>

\* the caller cancels the request's context, or its deadline passes, during an
\* agentic-mode turn
Cancel(reason) ==
    /\ prog = "sdk" /\ pc \in {"loop", "tools"}
    /\ req.Cancellable /\ ctx.err = ""
    /\ ctx' = [err |-> reason, at |-> pc]
    /\ UNCHANGED <<prog, cfg, pc, req, skill, mode, turn, lmCalls, emitted, pending, toolCalls,
                   invoked, response, result, err, storage, ran, variant, agentVars, valVars,
                   libVars, toolVars, chatVars, moreVars>>

ConfigInputs ==
    [ExecutionMode : {"", ModeAgentic}, MaxAgentTurns : 0..MaxCfgTurns, DefaultSkillID : {""}]
    \cup {[ExecutionMode |-> "", MaxAgentTurns |-> 1, DefaultSkillID |-> "n00n"]}

SDKIdle ==
    /\ pc = "idle"
    /\ req = [Message |-> <<>>, SkillID |-> "", Mode |-> "", ConversationID |-> "",
              Variant |-> "", UserID |-> <<>>, Cancellable |-> FALSE]
    /\ ctx = NoCtx /\ variant = <<>>
    /\ skill = NoSkill /\ mode = "" /\ turn = 0 /\ lmCalls = 0 /\ emitted = 0
    /\ pending = <<>> /\ toolCalls = <<>> /\ invoked = <<>> /\ response = JEmpty
    /\ result = ZeroResult /\ err = NoErr /\ ran = NoRan
    /\ storage = <<>>

\* aichat.New
SDKInit ==
    /\ \E c \in ConfigInputs : cfg = withDefaults(c)
    /\ SDKIdle

SDKParked ==
    /\ cfg = withDefaults([ExecutionMode |-> "", MaxAgentTurns |-> 0, DefaultSkillID |-> ""])
    /\ SDKIdle

\* ChatCompletionResult.FinishReason as the provider reports it
FinishLength == "length"
\* what LLMProvider.ChatCompletion may return: an error, or a message with its finish
\* reason; the length limit cuts the first response of a request only
LMResponses(made) ==
    {[kind |-> "error"]}
    \cup {[kind |-> "content", content |-> c, finish |-> "stop"] :
            c \in IF made < MaxVaried THEN Contents ELSE {JObj([answer |-> JStr("a")])}}
    \cup {[kind |-> "tools", calls |-> cs, finish |-> "tool_calls"] : cs \in CallSeqs(made)}
    \cup (IF made < MaxVaried
          THEN {[kind |-> "content", content |-> c, finish |-> FinishLength] :
                  c \in {JInvalid, JObj([answer |-> JStr("a")])}}
               \cup {[kind |-> "tools", calls |-> <<[Name |-> "get_weather", Args |-> "ok"]>>,
                      finish |-> FinishLength]}
          ELSE {})

SDKNext ==
    \/ \E r \in Requests : Chat(r)
    \/ UnknownMode
    \/ AgenticStart
    \/ \E n \in FetcherNames : FetcherExecute(n)
    \/ \E ok \in BOOLEAN : FetcherReturn(ok)
    \/ \E out \in PreprocessOutcomes : PreprocessHook(out)
    \/ \E lm \in {l \in LMResponses(0) : l.kind # "tools"} : ExecuteSkill(lm)
    \/ \E lm \in LMResponses(lmCalls) : ChatCompletion(lm)
    \/ MaxTurnsExceeded
    \/ \E ok \in BOOLEAN : ExecuteToolCall(ok)
    \/ \E ch \in HookOutcomes \cup {"error"} : PostprocessHook(ch)
    \/ \E o \in {"error", "answer", "suggest"} : ExpertPostProcess(o)
    \/ ReturnResult
    \/ \E ok \in BOOLEAN : StoreUserMessage(ok)
    \/ \E ok \in BOOLEAN : StoreAssistantMessage(ok)
    \/ \E reason \in {"context canceled", "context deadline exceeded"} : Cancel(reason)

----------------------------------------------------------------------------
(* Agent.Chat and Agent.runLoop (package agent), over conversation.MemoryStore *)

StopReasonEnd == "end"
StopReasonToolUse == "tool_use"
StopReasonLength == "length"
AgentTools == {"lookup"}                       \* the tools.Registry of the agent
AgentToolNames == {"lookup", "unknown_tool"}   \* names the provider may emit
ExhaustedText == "I wasn't able to complete your request in the allowed steps."

NoConv == [ID |-> "", Messages |-> <<>>, stored |-> FALSE]
NoOut == [returned |-> FALSE, err |-> "", Response |-> "", ToolCalls |-> <<>>]

AgentCallsOfLen(n) == [1..n -> AgentToolNames]
AgentCallSeqs(made) ==
    IF made < MaxVaried
    THEN UNION {AgentCallsOfLen(n) : n \in 0..MaxCallsPerResponse}
    ELSE {<<"lookup">>}
ProviderResponses(made) ==
    {[kind |-> "error"], [kind |-> StopReasonEnd]}
    \cup (IF made < MaxVaried THEN {[kind |-> StopReasonLength]} ELSE {})
    \cup {[kind |-> StopReasonToolUse, calls |-> cs] : cs \in AgentCallSeqs(made)}
AgentWithIDs(calls, from) == [i \in 1..Len(calls) |-> [ID |-> from + i, Name |-> calls[i]]]

\* MemoryStore.Get hands out the stored *Conversation itself: what Chat does to a
\* conversation it loaded is done to the store's conversation
Mutated(c, msgs) ==
    /\ conv' = [c EXCEPT !.Messages = msgs]
    /\ convStore' = IF c.stored
                    THEN [convStore EXCEPT ![c.ID] = msgs]
                    ELSE convStore

\* the loop condition of runLoop
RunLoopContinues(t, c) == t < c.MaxTurns

\* Agent.Chat up to the call of runLoop
AgentChat(sessionID) ==
    /\ prog = "agent" /\ apc = "idle"
    /\ LET found == sessionID # "" /\ sessionID \in DOMAIN convStore
           c == IF found
                THEN [ID |-> sessionID, Messages |-> convStore[sessionID], stored |-> TRUE]
                ELSE [ID |-> IF "s1" \in DOMAIN convStore THEN "s2" ELSE "s1",
                      Messages |-> <<>>, stored |-> FALSE]
       IN /\ Mutated(c, Append(c.Messages, [Role |-> "user", Content |-> "q"]))
          /\ llmMessages' = [i \in 1..(Len(c.Messages) + 1) |->
                                [Role |-> Append(c.Messages, [Role |-> "user"])[i].Role, ID |-> 0]]
    /\ apc' = "loop"
    /\ aBefore' = convStore
    /\ UNCHANGED <<prog, acfg, aturn, aCalls, aPending, aEmitted, allToolCalls, aOut,
                   sdkVars, valVars, libVars, toolVars, chatVars, moreVars>>

\* one iteration of runLoop up to the execution of the tools
ProviderChat(resp) ==
    /\ prog = "agent" /\ apc = "loop"
    /\ RunLoopContinues(aturn, acfg)
    /\ aCalls' = aCalls + 1
    /\ CASE resp.kind = "error" ->
              /\ apc' = "done"
              /\ aOut' = [NoOut EXCEPT !.returned = TRUE, !.err = "agent loop"]
              /\ UNCHANGED <<aturn, aPending, aEmitted, llmMessages>>
         [] resp.kind = StopReasonEnd ->
              /\ apc' = "finish"
              /\ aOut' = [NoOut EXCEPT !.Response = "answer", !.ToolCalls = allToolCalls]
              /\ UNCHANGED <<aturn, aPending, aEmitted, llmMessages>>
         [] resp.kind = StopReasonToolUse ->
              /\ llmMessages' = Append(llmMessages, [Role |-> "assistant", ID |-> 0])
              /\ aPending' = AgentWithIDs(resp.calls, aEmitted)
              /\ aEmitted' = aEmitted + Len(resp.calls)
              /\ IF resp.calls = <<>>
                 THEN apc' = "loop" /\ aturn' = aturn + 1
                 ELSE apc' = "tools" /\ aturn' = aturn
              /\ UNCHANGED aOut
         [] resp.kind = StopReasonLength ->
              /\ aturn' = aturn + 1
              /\ UNCHANGED <<apc, aOut, aPending, aEmitted, llmMessages>>
    /\ UNCHANGED <<prog, acfg, allToolCalls, conv, convStore, aBefore, sdkVars, valVars, libVars, toolVars, chatVars, moreVars>>

RegistryExecuteFailsInHandlerOnly(name, handlerOK) == ~handlerOK
\* Registry.Execute (agentic tools): err != nil for an unknown name or a failing handler
RegistryExecuteFails(name, handlerOK) == name \notin AgentTools \/ ~handlerOK

\* the loop body for the next tool call: Registry.Execute and the bookkeeping
AgentExecuteTool(handlerOK) ==
    /\ prog = "agent" /\ apc = "tools"
    /\ LET tc == Head(aPending)
           failed == RegistryExecuteFails(tc.Name, handlerOK)
       IN /\ allToolCalls' = Append(allToolCalls, [ID |-> tc.ID, Name |-> tc.Name, Error |-> failed])
          /\ llmMessages' = Append(llmMessages,
                                   [Role |-> "tool", ID |-> tc.ID, IsError |-> failed])
    /\ aPending' = Tail(aPending)
    /\ IF Tail(aPending) = <<>>
       THEN apc' = "loop" /\ aturn' = aturn + 1
       ELSE apc' = "tools" /\ aturn' = aturn
    /\ UNCHANGED <<prog, acfg, aCalls, aEmitted, conv, convStore, aOut, aBefore, sdkVars, valVars, libVars, toolVars, chatVars, moreVars>>

\* runLoop falls out of the loop
RunLoopExhausted ==
    /\ prog = "agent" /\ apc = "loop"
    /\ ~RunLoopContinues(aturn, acfg)
    /\ apc' = "finish"
    /\ aOut' = [NoOut EXCEPT !.Response = ExhaustedText, !.ToolCalls = allToolCalls]
    /\ UNCHANGED <<prog, acfg, aturn, aCalls, aPending, aEmitted, allToolCalls, llmMessages,
                   conv, convStore, aBefore, sdkVars, valVars, libVars, toolVars, chatVars, moreVars>>

\* Agent.Chat after runLoop returned without error: AddAssistantMessage, Save, return
AgentFinish ==
    /\ prog = "agent" /\ apc = "finish"
    /\ LET msgs == Append(conv.Messages, [Role |-> "assistant", Content |-> aOut.Response])
       IN /\ conv' = [conv EXCEPT !.Messages = msgs, !.stored = TRUE]
          /\ convStore' = [id \in (DOMAIN convStore) \cup {conv.ID} |->
                              IF id = conv.ID THEN msgs ELSE convStore[id]]
    /\ aOut' = [aOut EXCEPT !.returned = TRUE]
    /\ apc' = "done"
    /\ UNCHANGED <<prog, acfg, aturn, aCalls, aPending, aEmitted, allToolCalls, llmMessages,
                   aBefore, sdkVars, valVars, libVars, toolVars, chatVars, moreVars>>

\* the next Agent.Chat on the same agent
AgentNextRequest ==
    /\ prog = "agent" /\ apc = "done"
    /\ Cardinality(DOMAIN convStore) < MaxSessions
    /\ \A id \in DOMAIN convStore : Len(convStore[id]) <= MaxHistory
    /\ apc' = "idle" /\ aturn' = 0 /\ aCalls' = 0 /\ aPending' = <<>> /\ aEmitted' = 0
    /\ allToolCalls' = <<>> /\ llmMessages' = <<>> /\ conv' = NoConv /\ aOut' = NoOut
    /\ aBefore' = <<>>
    /\ UNCHANGED <<prog, acfg, convStore, sdkVars, valVars, libVars, toolVars, chatVars, moreVars>>

AgentIdle ==
    /\ apc = "idle" /\ aturn = 0 /\ aCalls = 0 /\ aPending = <<>> /\ aEmitted = 0
    /\ allToolCalls = <<>> /\ llmMessages = <<>> /\ conv = NoConv /\ aOut = NoOut
    /\ convStore = <<>> /\ aBefore = <<>>

\* agent.New with DefaultConfig, or WithConfig / WithMaxTurns
AgentInit ==
    /\ acfg \in {[MaxTurns |-> n] : n \in (0..MaxCfgTurns) \cup {DefaultMaxTurns}}
    /\ AgentIdle

AgentParked == acfg = [MaxTurns |-> DefaultMaxTurns] /\ AgentIdle

AgentNext ==
    \/ \E sid \in {"", "s1", "nope"} : AgentChat(sid)
    \/ \E resp \in ProviderResponses(aCalls) : ProviderChat(resp)
    \/ \E ok \in (IF aCalls <= MaxVaried THEN BOOLEAN ELSE {TRUE}) : AgentExecuteTool(ok)
    \/ RunLoopExhausted
    \/ AgentFinish
    \/ AgentNextRequest

----------------------------------------------------------------------------
(* SDK.validateResponse on its own: any schema of the model, any response *)

AnswerVals == {<<>>, <<JStr("yes")>>, <<JStr("maybe")>>, <<JNum("1")>>}
TagsVals ==
    {<<>>, <<JArr(<<>>)>>, <<JArr(<<JStr("a")>>)>>, <<JArr(<<JStr("a"), JNum("1")>>)>>,
     <<JStr("a")>>}
MetaVals == {<<>>, <<JObj([n |-> JNum("1")])>>, <<JObj([n |-> JStr("x")])>>, <<JNull>>}

ObjWith(a, t, m) ==
    JObj([k \in (IF a = <<>> THEN {} ELSE {"answer"}) \cup (IF t = <<>> THEN {} ELSE {"tags"})
                \cup (IF m = <<>> THEN {} ELSE {"meta"}) |->
            IF k = "answer" THEN a[1] ELSE IF k = "tags" THEN t[1] ELSE m[1]])

ValResponses ==
    {JInvalid, JNull, JArr(<<JStr("a")>>)}
    \cup {ObjWith(a, t, m) : a \in AnswerVals, t \in TagsVals, m \in MetaVals}
ValSchemas == {<<>>, <<AnswerSchema>>, <<TypedSchema>>, <<OptionalSchema>>}

ValidateInit ==
    /\ vSchema \in ValSchemas
    /\ vResponse \in ValResponses
    /\ vResult = "pending"

ValidateParked == vSchema = <<>> /\ vResponse = JEmpty /\ vResult = "pending"

\* a call of SDK.validateResponse
Validate ==
    /\ prog = "validate" /\ vResult = "pending"
    /\ vResult' = validateResponse([Output |-> vSchema], vResponse)
    /\ UNCHANGED <<prog, vSchema, vResponse, sdkVars, agentVars, libVars, toolVars, chatVars, moreVars>>

----------------------------------------------------------------------------
(* skills.Registry.Match called repeatedly on the SDK's registry *)

\* the orders in which a range over a Go map can visit the keys in S
MapOrders(S) ==
    {f \in [1..Cardinality(S) -> S] : \A i, j \in DOMAIN f : i # j => f[i] # f[j]}
\* the lists Match can return: the matching skills (ids), in map iteration order
MatchLists(message) == MapOrders({sk.ID : sk \in Match(message)})
MatchMessages == Messages \cup {<<"p", "r", "o">>}

MatchIdle == mResults = <<>>
MatchInit == mMessage \in MatchMessages /\ MatchIdle
MatchParked == mMessage = <<>> /\ MatchIdle

\* a call of Registry.Match
MatchCall ==
    /\ prog = "match" /\ Len(mResults) < MaxLibCalls
    /\ \E l \in MatchLists(mMessage) : mResults' = Append(mResults, l)
    /\ UNCHANGED <<prog, mMessage, svSkill, svReq, svResults, msConvs, msGot, msLast,
                   sdkVars, agentVars, valVars,
                   toolVars, chatVars, moreVars>>

----------------------------------------------------------------------------
(* SDK.selectVariant called repeatedly for the same skill and request *)

VariantWeights == {-1, 0, 1, 2}
VariantLists ==
    {<<[Variant |-> "A", Weight |-> w]>> : w \in VariantWeights}
    \cup {<<[Variant |-> "A", Weight |-> w1], [Variant |-> "B", Weight |-> w2]>> :
             w1 \in VariantWeights, w2 \in VariantWeights}
VariantRequests == [Variant : {"", "A", "B", "zz"}, UserID : {<<>>, <<1>>}]

VariantIdle == svResults = <<>>
VariantInit == svSkill \in VariantLists /\ svReq \in VariantRequests /\ VariantIdle
VariantParked == svSkill = <<>> /\ svReq = [Variant |-> "", UserID |-> <<>>] /\ VariantIdle

\* a call of SDK.selectVariant when the clock reads now
SelectVariantCall(now) ==
    /\ prog = "variant" /\ Len(svResults) < MaxLibCalls
    /\ svResults' = Append(svResults,
           [now |-> now, sel |-> selectVariant(svSkill, svReq.Variant, svReq.UserID, now)])
    /\ UNCHANGED <<prog, mMessage, mResults, svSkill, svReq, msConvs, msGot, msLast,
                   sdkVars, agentVars, valVars,
                   toolVars, chatVars, moreVars>>

----------------------------------------------------------------------------
(* conversation.MemoryStore and a caller holding what a get returned *)

StoreIDs == {"c1", UnsafeID}
StoreMessages == {1, 2}
CallerMessage == 9             \* what the caller writes into what it got
Limits == {-1, 0, 1, 2, 3}
NoGot == [kind |-> "none", id |-> "", from |-> 0, msgs |-> <<>>, shared |-> FALSE]
RECURSIVE StoredIn(_, _)
StoredIn(convs, ids) ==
    IF ids = {} THEN 0
    ELSE LET i == CHOOSE x \in ids : TRUE
         IN Len(convs[i]) + StoredIn(convs, ids \ {i})
Stored == StoredIn(msConvs, DOMAIN msConvs)

WindowStartAtHead(msgs, limit) == 0
\* the window of GetMessages: messages[len(messages)-limit:] when 0 < limit < len
WindowStart(msgs, limit) ==
    IF limit > 0 /\ Len(msgs) > limit THEN Len(msgs) - limit ELSE 0
GetMessages(convs, id, limit) ==
    IF id \notin DOMAIN convs THEN <<>>
    ELSE SubSeq(convs[id], WindowStart(convs[id], limit) + 1, Len(convs[id]))

MemStoreIdle == msConvs = <<>> /\ msGot = NoGot /\ msLast = [op |-> "new"]

\* MemoryStore.AddMessage; a slice handed out earlier stays on the old backing array
\* when append reallocates
AddMessage(id, m) ==
    /\ prog = "memstore" /\ Stored < MaxStored
    /\ msConvs' = [i \in (DOMAIN msConvs) \cup {id} |->
                      IF i = id
                      THEN Append(IF id \in DOMAIN msConvs THEN msConvs[id] ELSE <<>>, m)
                      ELSE msConvs[i]]
    /\ msLast' = [op |-> "add", id |-> id, m |-> m]
    /\ IF msGot.kind = "msgs" /\ msGot.id = id /\ msGot.shared
       THEN \E still \in BOOLEAN : msGot' = [msGot EXCEPT !.shared = still]
       ELSE UNCHANGED msGot
    /\ UNCHANGED <<prog, mMessage, mResults, svSkill, svReq, svResults, sdkVars, agentVars, valVars,
                   toolVars, chatVars, moreVars>>

\* MemoryStore.GetMessages: the caller receives a slice of conv.Messages
GetMessagesCall(id, limit) ==
    /\ prog = "memstore"
    /\ msGot' = [kind |-> "msgs", id |-> id,
                 from |-> IF id \in DOMAIN msConvs THEN WindowStart(msConvs[id], limit) ELSE 0,
                 msgs |-> GetMessages(msConvs, id, limit),
                 shared |-> id \in DOMAIN msConvs]
    /\ msLast' = [op |-> "get", id |-> id, limit |-> limit]
    /\ UNCHANGED <<prog, msConvs, mMessage, mResults, svSkill, svReq, svResults, sdkVars,
                   agentVars, valVars,
                   toolVars, chatVars, moreVars>>

\* MemoryStore.GetConversation: the caller receives the stored *Conversation
GetConversation(id) ==
    /\ prog = "memstore"
    /\ msGot' = IF id \in DOMAIN msConvs
                THEN [kind |-> "conv", id |-> id, from |-> 0, msgs |-> msConvs[id],
                      shared |-> TRUE]
                ELSE NoGot
    /\ msLast' = [op |-> "getconv", id |-> id]
    /\ UNCHANGED <<prog, msConvs, mMessage, mResults, svSkill, svReq, svResults, sdkVars,
                   agentVars, valVars,
                   toolVars, chatVars, moreVars>>

\* the caller changes what it got: appends to conv.Messages of the conversation, or
\* overwrites the first element of the message slice
CallerMutates ==
    /\ prog = "memstore" /\ msLast.op \in {"get", "getconv"}
    /\ \/ /\ msGot.kind = "conv" /\ Stored < MaxStored
          /\ msConvs' = [msConvs EXCEPT ![msGot.id] = Append(@, CallerMessage)]
          /\ msGot' = [msGot EXCEPT !.msgs = Append(msConvs[msGot.id], CallerMessage)]
       \/ /\ msGot.kind = "msgs" /\ msGot.msgs # <<>>
          /\ msGot' = [msGot EXCEPT !.msgs[1] = CallerMessage]
          /\ msConvs' = IF msGot.shared
                        THEN [msConvs EXCEPT ![msGot.id][msGot.from + 1] = CallerMessage]
                        ELSE msConvs
    /\ msLast' = [op |-> "mutate"]
    /\ UNCHANGED <<prog, mMessage, mResults, svSkill, svReq, svResults, sdkVars, agentVars, valVars,
                   toolVars, chatVars, moreVars>>

MemStoreNext ==
    \/ \E id \in StoreIDs, m \in StoreMessages : AddMessage(id, m)
    \/ \E id \in StoreIDs, limit \in Limits : GetMessagesCall(id, limit)
    \/ \E id \in StoreIDs : GetConversation(id)
    \/ CallerMutates

LibParked == MatchParked /\ VariantParked /\ MemStoreIdle

----------------------------------------------------------------------------
(* tools.Registry.GetForSkill called with a skill's tool names *)

MaxNames == 3
ToolNames == {"get_weather", "send_email", "search", "missing_tool", "gone"}
NameLists == UNION {[1..n -> ToolNames] : n \in 0..MaxNames}

ResolveInit == gfNames \in NameLists /\ gfResult = <<>>
ResolveParked == gfNames = <<>> /\ gfResult = <<>>

\* a call of Registry.GetForSkill
GetForSkillCall ==
    /\ prog = "resolve" /\ gfResult = <<>>
    /\ gfResult' = <<GetForSkill(gfNames)>>
    /\ UNCHANGED <<prog, gfNames, tiCall, tiSeen, rgHeap, rgMaps, rgSnap,
                   sdkVars, agentVars, valVars, libVars, chatVars, moreVars>>

----------------------------------------------------------------------------
(* A tool registered through tools.Registry, executed by the engine *)

\* a value of a params map, by its dynamic type
StrVal(x) == [t |-> "string", v |-> x]
NumVal(x) == [t |-> "float64", v |-> x]
BoolVal(x) == [t |-> "bool", v |-> x]
IntVal(x) == [t |-> "int", v |-> x]

\* the tool's declared parameters (tools.Params): String, StringWithDefault,
\* IntWithDefault, BoolWithDefault; def is defaultVal, <<>> when nil
DeclaredParams ==
    [city |-> [paramType |-> "string", def |-> <<>>],
     unit |-> [paramType |-> "string", def |-> <<StrVal("c")>>],
     days |-> [paramType |-> "integer", def |-> <<IntVal(3)>>],
     metric |-> [paramType |-> "boolean", def |-> <<BoolVal(TRUE)>>]]
\* what a call supplies for a parameter it supplies (decoded from the LM's JSON)
Supplied ==
    [city |-> StrVal("oslo"), unit |-> StrVal("f"), days |-> NumVal(7),
     metric |-> BoolVal(FALSE)]
ParamMaps == {[k \in ks |-> Supplied[k]] : ks \in SUBSET (DOMAIN Supplied)}

\* toParamDefinitions: the aichat.ParamDefinitions of the registered tool
toParamDefinitions(params) ==
    [k \in DOMAIN params |-> [Type |-> params[k].paramType, Default |-> params[k].def]]
\* newToolInput(params, defs): the aichat.Input the engine hands to Fetch / Execute
newToolInput(params, defs) == [params |-> params, defs |-> defs]
\* extractParams(input): returns nil
extractParams(input) == <<>>
\* toFetchFn / toExecuteFn: the tools.Input the user's function is called with
toFetchFn(input) == [params |-> extractParams(input), paramDefs |-> <<>>]

\* tools.Input: Has, StringOr, IntOr, BoolOr
Has(in, name) == name \in DOMAIN in.params
StringOr(in, name, defaultValue) ==
    IF name \in DOMAIN in.params /\ in.params[name].t = "string" THEN in.params[name].v
    ELSE IF name \in DOMAIN in.paramDefs /\ in.paramDefs[name].def # <<>>
            /\ in.paramDefs[name].def[1].t = "string"
         THEN in.paramDefs[name].def[1].v
    ELSE defaultValue
IntOr(in, name, defaultValue) ==
    IF name \in DOMAIN in.params /\ in.params[name].t \in {"int", "int64", "float64"}
    THEN in.params[name].v
    ELSE IF name \in DOMAIN in.paramDefs /\ in.paramDefs[name].def # <<>>
            /\ in.paramDefs[name].def[1].t = "int"
         THEN in.paramDefs[name].def[1].v
    ELSE defaultValue
BoolOr(in, name, defaultValue) ==
    IF name \in DOMAIN in.params /\ in.params[name].t = "bool" THEN in.params[name].v
    ELSE IF name \in DOMAIN in.paramDefs /\ in.paramDefs[name].def # <<>>
            /\ in.paramDefs[name].def[1].t = "bool"
         THEN in.paramDefs[name].def[1].v
    ELSE defaultValue

\* what the user's function reads off its Input: Has(k), String(k), Int(k), Bool(k)
Observed(in) ==
    [has |-> {k \in DOMAIN DeclaredParams : Has(in, k)},
     city |-> StringOr(in, "city", ""), unit |-> StringOr(in, "unit", ""),
     days |-> IntOr(in, "days", 0), metric |-> BoolOr(in, "metric", FALSE)]

InputInit ==
    /\ tiCall \in [kind : {"source", "action"}, params : ParamMaps]
    /\ tiSeen = <<>>
InputParked == tiCall = [kind |-> "", params |-> <<>>] /\ tiSeen = <<>>

\* executeToolCall / toolExecutorImpl.Execute reach the tool: src.Fetch(ctx, input) or
\* act.Execute(ctx, input), where Fetch and Execute are what RegisterSource and
\* RegisterAction stored
CallRegisteredTool ==
    /\ prog = "input" /\ tiSeen = <<>>
    /\ tiSeen' = <<Observed(toFetchFn(newToolInput(tiCall.params,
                                                    toParamDefinitions(DeclaredParams))))>>
    /\ UNCHANGED <<prog, gfNames, gfResult, tiCall, rgHeap, rgMaps, rgSnap,
                   sdkVars, agentVars, valVars, libVars, chatVars, moreVars>>

----------------------------------------------------------------------------
(* tools.Registry and skills.Registry: Register* calls, and a caller holding the list *)
(* an All* call returned. Every method holds r.mu for the whole call, so each call  *)
(* is one step.                                                                      *)

MaxRegistered == 3
Registries == {"sources", "actions", "skills"}
RegNames == {"a", "b"}
Descriptions == {"d1", "d2"}

\* the definitions a list of addresses points to
Deref(heap, addrs) == [i \in 1..Len(addrs) |-> heap[addrs[i]]]

StoreAtExisting(heap, m, name) == IF name \in DOMAIN m THEN m[name] ELSE Len(heap) + 1
\* the address the map entry is set to: r.sources[name] = &aichat.Source{...} is a new
\* object each time; skills.Registry.Register is handed the pointer to a Skill the
\* caller has just built
StoreAt(heap, m, name) == Len(heap) + 1

RegistryInit ==
    /\ rgHeap = <<>> /\ rgSnap = <<>>
    /\ rgMaps = [k \in Registries |-> <<>>]
RegistryParked == RegistryInit

\* RegisterSource / RegisterAction / skills.Registry.Register
Register(kind, name, description) ==
    /\ prog = "registry" /\ Len(rgHeap) < MaxRegistered
    /\ LET addr == StoreAt(rgHeap, rgMaps[kind], name)
           def == [Name |-> name, Description |-> description]
       IN /\ rgHeap' = IF addr > Len(rgHeap) THEN Append(rgHeap, def)
                       ELSE [rgHeap EXCEPT ![addr] = def]
          /\ rgMaps' = [rgMaps EXCEPT ![kind] =
                           [n \in (DOMAIN @) \cup {name} |-> IF n = name THEN addr ELSE @[n]]]
    /\ UNCHANGED <<prog, gfNames, gfResult, tiCall, tiSeen, rgSnap,
                   sdkVars, agentVars, valVars, libVars, chatVars, moreVars>>

\* AllSources / AllActions / skills.Registry.All: a new slice of the pointers in the
\* map, in map iteration order; shown is what the list shows the caller on return
All(kind) ==
    /\ prog = "registry"
    /\ \E order \in MapOrders(DOMAIN rgMaps[kind]) :
         LET addrs == [i \in 1..Len(order) |-> rgMaps[kind][order[i]]]
         IN rgSnap' = <<[kind |-> kind, addrs |-> addrs, shown |-> Deref(rgHeap, addrs)]>>
    /\ UNCHANGED <<prog, gfNames, gfResult, tiCall, tiSeen, rgHeap, rgMaps,
                   sdkVars, agentVars, valVars, libVars, chatVars, moreVars>>

RegistryNext ==
    \/ \E k \in Registries, n \in RegNames, d \in Descriptions : Register(k, n, d)
    \/ \E k \in Registries : All(k)

ToolParked == ResolveParked /\ InputParked /\ RegistryParked

----------------------------------------------------------------------------
(* SDK.Chat requests running concurrently on one conversation id: the hooks with   *)
(* their metadata map, and storeMessages over conversation.MemoryStore, AddMessage *)
(* taken statement by statement.                                                   *)

MaxConcurrent == 2        \* callers of SDK.Chat running side by side
MaxTurnsEach == 2         \* requests each of them makes, one after the other
Callers == 1..MaxConcurrent
SharedID == "c1"

\* the message request n of caller g stores for a role
StoredMessage(g, n, role) == [Role |-> role, By |-> <<g, n>>]
FrameShared(g) == 1
\* the call frame holding the locals of caller g's executeExpertMode /
\* executeAgenticMode; metadata := make(map[string]any) is one of them
Frame(g) == g

MutexAlwaysFree(holder) == TRUE
\* s.mu.Lock() returns only when nobody holds the mutex
MutexFree(holder) == holder = 0

NoLocal == [n |-> 0, wrote |-> FALSE, role |-> "", ok |-> FALSE, added |-> {}]
NoSeen == [pre |-> <<>>, post |-> <<>>]      \* <<m>> once the hook was handed map m

ChatsInit ==
    /\ ccPc = [g \in Callers |-> "idle"]
    /\ ccMu = 0 /\ ccConvs = <<>>
    /\ ccLocal = [g \in Callers |-> NoLocal]
    /\ ccMeta = [g \in Callers |-> <<>>]
    /\ ccSeen = [g \in Callers |-> NoSeen]
ChatsParked == ChatsInit

\* Chat is called; execute*Mode reaches metadata := make(map[string]any)
ChatCalled(g) ==
    /\ prog = "chats" /\ ccPc[g] \in {"idle", "returned"}
    /\ ccLocal[g].n < MaxTurnsEach
    /\ ccLocal' = [ccLocal EXCEPT ![g] = [NoLocal EXCEPT !.n = ccLocal[g].n + 1,
                                                         !.added = ccLocal[g].added]]
    /\ ccMeta' = [ccMeta EXCEPT ![Frame(g)] = <<>>]
    /\ ccSeen' = [ccSeen EXCEPT ![g] = NoSeen]
    /\ ccPc' = [ccPc EXCEPT ![g] = "pre"]
    /\ UNCHANGED <<prog, ccMu, ccConvs, toolVars, sdkVars, agentVars, valVars, libVars, moreVars>>

\* the pre-hook is handed the metadata map; it may write an entry (key: the caller,
\* value: the number of its request) and may fail
ChatPreHook(g, out) ==
    /\ prog = "chats" /\ ccPc[g] = "pre"
    /\ ccSeen' = [ccSeen EXCEPT ![g].pre = <<ccMeta[Frame(g)]>>]
    /\ ccMeta' = IF out = "write"
                 THEN [ccMeta EXCEPT ![Frame(g)] = WithKey(@, g, ccLocal[g].n)]
                 ELSE ccMeta
    /\ ccLocal' = [ccLocal EXCEPT ![g].wrote = (out = "write")]
    /\ ccPc' = [ccPc EXCEPT ![g] = IF out = "error" THEN "returned" ELSE "post"]
    /\ UNCHANGED <<prog, ccMu, ccConvs, toolVars, sdkVars, agentVars, valVars, libVars, moreVars>>

\* the LM call, the validation or a tool fails: Chat returns the error
ChatTurnFails(g) ==
    /\ prog = "chats" /\ ccPc[g] = "post"
    /\ ccPc' = [ccPc EXCEPT ![g] = "returned"]
    /\ UNCHANGED <<prog, ccMu, ccConvs, ccLocal, ccMeta, ccSeen,
                   toolVars, sdkVars, agentVars, valVars, libVars, moreVars>>

\* the post-hook is handed the metadata map; when it succeeds Chat goes on to
\* storeMessages, whose first AddMessage stores the user message
ChatPostHook(g, ok) ==
    /\ prog = "chats" /\ ccPc[g] = "post"
    /\ ccSeen' = [ccSeen EXCEPT ![g].post = <<ccMeta[Frame(g)]>>]
    /\ ccLocal' = [ccLocal EXCEPT ![g].role = IF ok THEN "user" ELSE @]
    /\ ccPc' = [ccPc EXCEPT ![g] = IF ok THEN "lock" ELSE "returned"]
    /\ UNCHANGED <<prog, ccMu, ccConvs, ccMeta, toolVars, sdkVars, agentVars, valVars, libVars, moreVars>>

\* AddMessage: s.mu.Lock()
AddMessageLock(g) ==
    /\ prog = "chats" /\ ccPc[g] = "lock"
    /\ MutexFree(ccMu)
    /\ ccMu' = g
    /\ ccPc' = [ccPc EXCEPT ![g] = "lookup"]
    /\ UNCHANGED <<prog, ccConvs, ccLocal, ccMeta, ccSeen,
                   toolVars, sdkVars, agentVars, valVars, libVars, moreVars>>

\* AddMessage: conv, ok := s.conversations[conversationID]
AddMessageLookup(g) ==
    /\ prog = "chats" /\ ccPc[g] = "lookup"
    /\ ccLocal' = [ccLocal EXCEPT ![g].ok = SharedID \in DOMAIN ccConvs]
    /\ ccPc' = [ccPc EXCEPT ![g] = IF SharedID \in DOMAIN ccConvs THEN "append" ELSE "create"]
    /\ UNCHANGED <<prog, ccMu, ccConvs, ccMeta, ccSeen,
                   toolVars, sdkVars, agentVars, valVars, libVars, moreVars>>

\* AddMessage: s.conversations[conversationID] = conv, a new empty conversation
AddMessageCreate(g) ==
    /\ prog = "chats" /\ ccPc[g] = "create"
    /\ ccConvs' = [id \in {SharedID} |-> <<>>]
    /\ ccPc' = [ccPc EXCEPT ![g] = "append"]
    /\ UNCHANGED <<prog, ccMu, ccLocal, ccMeta, ccSeen,
                   toolVars, sdkVars, agentVars, valVars, libVars, moreVars>>

\* AddMessage: conv.Messages = append(conv.Messages, msg)
AddMessageAppend(g) ==
    /\ prog = "chats" /\ ccPc[g] = "append"
    /\ ccConvs' = [ccConvs EXCEPT ![SharedID] =
                      Append(@, StoredMessage(g, ccLocal[g].n, ccLocal[g].role))]
    /\ ccPc' = [ccPc EXCEPT ![g] = "unlock"]
    /\ UNCHANGED <<prog, ccMu, ccLocal, ccMeta, ccSeen,
                   toolVars, sdkVars, agentVars, valVars, libVars, moreVars>>

\* AddMessage returns nil (the deferred s.mu.Unlock()); storeMessages goes on to the
\* assistant message, or returns, and Chat with it
AddMessageReturn(g) ==
    /\ prog = "chats" /\ ccPc[g] = "unlock"
    /\ ccMu' = 0
    /\ ccLocal' = [ccLocal EXCEPT
                      ![g].added = @ \cup {StoredMessage(g, ccLocal[g].n, ccLocal[g].role)},
                      ![g].role = IF @ = "user" THEN "assistant" ELSE @]
    /\ ccPc' = [ccPc EXCEPT ![g] = IF ccLocal[g].role = "user" THEN "lock" ELSE "returned"]
    /\ UNCHANGED <<prog, ccConvs, ccMeta, ccSeen,
                   toolVars, sdkVars, agentVars, valVars, libVars, moreVars>>

ChatsNext ==
    \E g \in Callers :
        \/ ChatCalled(g)
        \/ \E out \in {"write", "skip", "error"} : ChatPreHook(g, out)
        \/ ChatTurnFails(g)
        \/ \E ok \in BOOLEAN : ChatPostHook(g, ok)
        \/ AddMessageLock(g)
        \/ AddMessageLookup(g)
        \/ AddMessageCreate(g)
        \/ AddMessageAppend(g)
        \/ AddMessageReturn(g)

----------------------------------------------------------------------------
----------------------------------------------------------------------------
(* SDK.buildPrompt (expert mode) and SDK.buildAgentMessages with the seed-data
   insertion of executeAgenticMode; the content of a message is the sequence of
   the pieces of text it is concatenated from *)

Guardrails == {<<>>, <<"g1", "g2">>}
ContextKeys == {<<>>, <<"k1", "k2">>}
\* RequestContext: nil, or a map; k2 is present with the empty string or absent
RequestContexts == {[nil |-> TRUE, m |-> <<>>], [nil |-> FALSE, m |-> [k1 |-> "v1"]],
                    [nil |-> FALSE, m |-> [k1 |-> "v1", k2 |-> ""]]}
ExamplePairs == {<<>>,
                 <<[User |-> "u1", Assistant |-> "a1"], [User |-> "u2", Assistant |-> "a2"]>>}
PromptInputs ==
    [Instructions : {"I"}, VariantInstructions : {"", "V"}, Guardrails : Guardrails,
     ContextInPrompt : ContextKeys, reqCtx : RequestContexts, Output : {"nil", "schema"},
     Examples : ExamplePairs, Message : {"hello"}, fetchedData : {"nil", "seed"}]

\* RequestContext.String
CtxString(c, key, defaultValue) ==
    IF c.nil THEN defaultValue
    ELSE IF key \in DOMAIN c.m THEN c.m[key] ELSE defaultValue

RECURSIVE GuardrailLines(_)
GuardrailLines(gs) ==
    IF gs = <<>> THEN <<>> ELSE <<"- " \o Head(gs)>> \o GuardrailLines(Tail(gs))
RECURSIVE ContextLines(_, _)
ContextLines(keys, c) ==
    IF keys = <<>> THEN <<>>
    ELSE (IF CtxString(c, Head(keys), "") # ""
          THEN <<"- " \o Head(keys) \o ": " \o CtxString(c, Head(keys), "")>>
          ELSE <<>>) \o ContextLines(Tail(keys), c)
RECURSIVE ExampleMessages(_)
ExampleMessages(exs) ==
    IF exs = <<>> THEN <<>>
    ELSE <<[Role |-> "user", Content |-> <<Head(exs).User>>],
           [Role |-> "assistant", Content |-> <<Head(exs).Assistant>>]>>
         \o ExampleMessages(Tail(exs))

\* the instructions both builders start from, with the Rules block
BaseInstructions(in) ==
    <<IF in.VariantInstructions = "" THEN in.Instructions ELSE in.VariantInstructions>>
    \o (IF Len(in.Guardrails) > 0 THEN <<"Rules:">> \o GuardrailLines(in.Guardrails) ELSE <<>>)
ContextBlock(in) ==
    IF Len(in.ContextInPrompt) > 0 /\ ~in.reqCtx.nil
    THEN <<"Context:">> \o ContextLines(in.ContextInPrompt, in.reqCtx)
    ELSE <<>>
SchemaBlock(in) ==
    IF in.Output # "nil"
    THEN <<"You MUST respond with valid JSON matching this schema:", in.Output>>
    ELSE <<>>

\* SDK.buildPrompt(skill, variant, message, data, reqCtx)
buildPrompt(in, data) ==
    <<[Role |-> "system", Content |-> BaseInstructions(in) \o ContextBlock(in) \o SchemaBlock(in)]>>
    \o ExampleMessages(in.Examples)
    \o (IF data # "nil"
        THEN <<[Role |-> "system", Content |-> <<"Available data:", data>>]>>
        ELSE <<>>)
    \o <<[Role |-> "user", Content |-> <<in.Message>>]>>

\* SDK.buildAgentMessages(skill, variant, req)
buildAgentMessages(in) ==
    <<[Role |-> "system", Content |-> BaseInstructions(in)]>>
    \o ExampleMessages(in.Examples)
    \o <<[Role |-> "user", Content |-> <<in.Message>>]>>

\* append(messages[:len(messages)-1], m, messages[len(messages)-1])
InsertBeforeLast(messages, m) ==
    SubSeq(messages, 1, Len(messages) - 1) \o <<m, messages[Len(messages)]>>
InitialData(data) == [Role |-> "system", Content |-> <<"Initial data:", data>>]
\* the messages executeAgenticMode starts its loop with
AgentMessages(in) ==
    IF in.fetchedData # "nil"
    THEN InsertBeforeLast(buildAgentMessages(in), InitialData(in.fetchedData))
    ELSE buildAgentMessages(in)

NoPromptInput ==
    [Instructions |-> "", VariantInstructions |-> "", Guardrails |-> <<>>,
     ContextInPrompt |-> <<>>, reqCtx |-> [nil |-> TRUE, m |-> <<>>], Output |-> "nil",
     Examples |-> <<>>, Message |-> "", fetchedData |-> "nil"]
PromptInit == pmIn \in PromptInputs /\ pmOut = <<>>
PromptParked == pmIn = NoPromptInput /\ pmOut = <<>>

\* both engines build their messages for the same skill, variant, context and utterance
BuildMessages ==
    /\ prog = "prompt" /\ pmOut = <<>>
    /\ pmOut' = <<[expert |-> buildPrompt(pmIn, "nil"), agentic |-> AgentMessages(pmIn)]>>
    /\ UNCHANGED <<prog, pmIn, sdkVars, agentVars, valVars, libVars, toolVars, chatVars,
                   sessVars, dispVars>>

----------------------------------------------------------------------------
(* Agent.Chat calls of concurrent callers carrying the same existing SessionID.
   MemoryStore.Get hands every caller the stored *Conversation; the postgres Store
   decodes a conversation of its own for every Get and Save replaces the row.
   c.Messages = append(c.Messages, msg) is a read of the slice and a write of it. *)

SessionCallers == 1..MaxConcurrent
StoreKinds == {"memory", "postgres"}
SessionHistory == <<[Role |-> "user", By |-> 0], [Role |-> "assistant", By |-> 0]>>
NoSessLocal == [conv |-> <<>>, read |-> <<>>]

SessionsInit ==
    /\ sxKind \in StoreKinds
    /\ sxPc = [g \in SessionCallers |-> "idle"]
    /\ sxStore = SessionHistory
    /\ sxLocal = [g \in SessionCallers |-> NoSessLocal]
SessionsParked ==
    /\ sxKind = "memory"
    /\ sxPc = [g \in SessionCallers |-> "idle"]
    /\ sxStore = <<>>
    /\ sxLocal = [g \in SessionCallers |-> NoSessLocal]

\* conv.Messages as caller g sees it: the store's conversation, or its own copy
ConvMessages(g) == IF sxKind = "memory" THEN sxStore ELSE sxLocal[g].conv
\* append(c.Messages, msg) on the slice read earlier
AppendToRead(seen, msg) == Append(seen, msg)

\* a.convStore.Get(ctx, req.SessionID)
SessionGet(g) ==
    /\ prog = "sessions" /\ sxPc[g] = "idle"
    /\ sxLocal' = [sxLocal EXCEPT ![g].conv = IF sxKind = "memory" THEN <<>> ELSE sxStore]
    /\ sxPc' = [sxPc EXCEPT ![g] = "got"]
    /\ UNCHANGED <<prog, sxKind, sxStore, sdkVars, agentVars, valVars, libVars, toolVars,
                   chatVars, promptVars, dispVars>>

\* AddUserMessage / AddAssistantMessage: the read of c.Messages
SessionAppendRead(g) ==
    /\ prog = "sessions" /\ sxPc[g] \in {"got", "looped"}
    /\ sxLocal' = [sxLocal EXCEPT ![g].read = ConvMessages(g)]
    /\ sxPc' = [sxPc EXCEPT ![g] = IF sxPc[g] = "got" THEN "user" ELSE "assistant"]
    /\ UNCHANGED <<prog, sxKind, sxStore, sdkVars, agentVars, valVars, libVars, toolVars,
                   chatVars, promptVars, dispVars>>

\* AddUserMessage / AddAssistantMessage: the write of c.Messages
SessionAppendWrite(g) ==
    /\ prog = "sessions" /\ sxPc[g] \in {"user", "assistant"}
    /\ LET msgs == AppendToRead(sxLocal[g].read, [Role |-> sxPc[g], By |-> g])
       IN IF sxKind = "memory"
          THEN /\ sxStore' = msgs
               /\ sxLocal' = [sxLocal EXCEPT ![g].read = <<>>]
          ELSE /\ sxLocal' = [sxLocal EXCEPT ![g].conv = msgs, ![g].read = <<>>]
               /\ UNCHANGED sxStore
    /\ sxPc' = [sxPc EXCEPT ![g] = IF sxPc[g] = "user" THEN "loop" ELSE "save"]
    /\ UNCHANGED <<prog, sxKind, sdkVars, agentVars, valVars, libVars, toolVars,
                   chatVars, promptVars, dispVars>>

\* a.runLoop returned a response and no error
SessionRunLoop(g) ==
    /\ prog = "sessions" /\ sxPc[g] = "loop"
    /\ sxPc' = [sxPc EXCEPT ![g] = "looped"]
    /\ UNCHANGED <<prog, sxKind, sxStore, sxLocal, sdkVars, agentVars, valVars, libVars,
                   toolVars, chatVars, promptVars, dispVars>>

\* a.convStore.Save(ctx, conv) and the return of Chat
SessionSave(g) ==
    /\ prog = "sessions" /\ sxPc[g] = "save"
    /\ sxStore' = IF sxKind = "memory" THEN sxStore ELSE sxLocal[g].conv
    /\ sxPc' = [sxPc EXCEPT ![g] = "done"]
    /\ UNCHANGED <<prog, sxKind, sxLocal, sdkVars, agentVars, valVars, libVars, toolVars,
                   chatVars, promptVars, dispVars>>

SessionsNext ==
    \E g \in SessionCallers :
        \/ SessionGet(g)
        \/ SessionAppendRead(g)
        \/ SessionAppendWrite(g)
        \/ SessionRunLoop(g)
        \/ SessionSave(g)

----------------------------------------------------------------------------
(* The expert dispatcher: newRouter, NewDispatcher and NewDispatcherStreaming *)

ExpertConfigs == {<<>>, [billing |-> "Billing"], [billing |-> "Billing", support |-> "Support"]}
DefaultExperts == {"", "support", "ghost"}
\* what chatJSON put into result.Expert, or its error
RouterAnswers == {"error", "billing", "support", "legal"}
DispatchInputs ==
    [experts : ExpertConfigs, defaultExpert : DefaultExperts, lm : RouterAnswers,
     handlerOK : BOOLEAN, streaming : BOOLEAN]
NoDispatchInput ==
    [experts |-> <<>>, defaultExpert |-> "", lm |-> "error", handlerOK |-> FALSE,
     streaming |-> FALSE]

getExpertName(experts, expertType) ==
    IF expertType \in DOMAIN experts THEN experts[expertType] ELSE expertType

\* the RouteQuestionFn newRouter returns
newRouter(in) ==
    IF in.lm = "error"
    THEN IF in.defaultExpert # ""
         THEN [err |-> FALSE, Expert |-> in.defaultExpert,
               ExpertName |-> getExpertName(in.experts, in.defaultExpert)]
         ELSE [err |-> TRUE, Expert |-> "", ExpertName |-> ""]
    ELSE [err |-> FALSE, Expert |-> in.lm, ExpertName |-> getExpertName(in.experts, in.lm)]

\* step 2 of the dispatcher: the expert whose handler will run, "" when none
ExpertFor(in, routed) ==
    IF routed \in DOMAIN in.experts THEN routed
    ELSE IF in.defaultExpert # "" /\ in.defaultExpert \in DOMAIN in.experts
    THEN in.defaultExpert
    ELSE ""

\* the function NewDispatcher / NewDispatcherStreaming returns, called once;
\* handler is the expert whose Handler or StreamHandler produced the answer
DispatchQuestion(in) ==
    LET r == newRouter(in)
        e == ExpertFor(in, r.Expert)
    IN IF r.err
       THEN [kind |-> "error", ExpertType |-> "", ExpertName |-> "", handler |-> ""]
       ELSE IF e = ""
       THEN [kind |-> "reasoning", ExpertType |-> r.Expert, ExpertName |-> r.ExpertName,
             handler |-> ""]
       ELSE IF ~in.handlerOK
       THEN [kind |-> "error", ExpertType |-> "", ExpertName |-> "", handler |-> e]
       ELSE [kind |-> "answer", ExpertType |-> r.Expert, ExpertName |-> r.ExpertName,
             handler |-> e]

DispatchInit == dpIn \in DispatchInputs /\ dpOut = <<>>
DispatchParked == dpIn = NoDispatchInput /\ dpOut = <<>>

Dispatch ==
    /\ prog = "dispatch" /\ dpOut = <<>>
    /\ dpOut' = <<DispatchQuestion(dpIn)>>
    /\ UNCHANGED <<prog, dpIn, sdkVars, agentVars, valVars, libVars, toolVars, chatVars,
                   promptVars, sessVars>>

MoreParked == PromptParked /\ SessionsParked /\ DispatchParked

Init ==
    \/ prog = "sdk" /\ SDKInit /\ AgentParked /\ ValidateParked /\ LibParked
          /\ ToolParked /\ ChatsParked /\ MoreParked
    \/ prog = "agent" /\ SDKParked /\ AgentInit /\ ValidateParked /\ LibParked
          /\ ToolParked /\ ChatsParked /\ MoreParked
    \/ prog = "validate" /\ SDKParked /\ AgentParked /\ ValidateInit /\ LibParked
          /\ ToolParked /\ ChatsParked /\ MoreParked
    \/ prog = "match" /\ SDKParked /\ AgentParked /\ ValidateParked
          /\ MatchInit /\ VariantParked /\ MemStoreIdle /\ ToolParked /\ ChatsParked /\ MoreParked
    \/ prog = "variant" /\ SDKParked /\ AgentParked /\ ValidateParked
          /\ MatchParked /\ VariantInit /\ MemStoreIdle /\ ToolParked /\ ChatsParked /\ MoreParked
    \/ prog = "memstore" /\ SDKParked /\ AgentParked /\ ValidateParked /\ LibParked
          /\ ToolParked /\ ChatsParked /\ MoreParked
    \/ prog = "resolve" /\ SDKParked /\ AgentParked /\ ValidateParked /\ LibParked
          /\ ResolveInit /\ InputParked /\ RegistryParked /\ ChatsParked /\ MoreParked
    \/ prog = "input" /\ SDKParked /\ AgentParked /\ ValidateParked /\ LibParked
          /\ ResolveParked /\ InputInit /\ RegistryParked /\ ChatsParked /\ MoreParked
    \/ prog \in {"registry", "chats"} /\ SDKParked /\ AgentParked /\ ValidateParked
          /\ LibParked /\ ToolParked /\ ChatsParked /\ MoreParked
    \/ prog = "prompt" /\ SDKParked /\ AgentParked /\ ValidateParked /\ LibParked
          /\ ToolParked /\ ChatsParked /\ PromptInit /\ SessionsParked /\ DispatchParked
    \/ prog = "sessions" /\ SDKParked /\ AgentParked /\ ValidateParked /\ LibParked
          /\ ToolParked /\ ChatsParked /\ PromptParked /\ SessionsInit /\ DispatchParked
    \/ prog = "dispatch" /\ SDKParked /\ AgentParked /\ ValidateParked /\ LibParked
          /\ ToolParked /\ ChatsParked /\ PromptParked /\ SessionsParked /\ DispatchInit


Next ==
    \/ SDKNext \/ AgentNext \/ Validate
    \/ MatchCall
    \/ \E now \in Clock : SelectVariantCall(now)
    \/ MemStoreNext
    \/ GetForSkillCall
    \/ CallRegisteredTool
    \/ RegistryNext
    \/ ChatsNext
    \/ BuildMessages
    \/ SessionsNext
    \/ Dispatch

Spec == Init /\ [][Next]_vars

\* every call the engine makes returns, and the engine then takes its next step
FairSpec == Spec /\ WF_vars(Next)

----------------------------------------------------------------------------
(* Properties *)

Succeeded == prog = "sdk" /\ pc \in {"store_user", "store_assistant", "done"} /\ err = NoErr
InAgentLoop == prog = "sdk" /\ pc \in {"loop", "tools"}
InRunLoop == prog = "agent" /\ apc \in {"loop", "tools"}

\* C1: an agentic-mode turn of SDK.executeAgenticMode issues at most MaxAgentTurns
\* ChatCompletion calls and then leaves the loop, whatever the LM answers; Agent.runLoop
\* issues at most MaxTurns provider calls and then leaves its loop.
C1_LoopBounded ==
    /\ [](prog = "sdk" => lmCalls <= cfg.MaxAgentTurns)
    /\ [](prog = "agent" => aCalls <= acfg.MaxTurns)
    /\ ((InAgentLoop \/ InRunLoop) ~> ~(InAgentLoop \/ InRunLoop))
C1_Witness ==
    /\ prog = "sdk" /\ pc = "done" /\ mode = ModeAgentic
    /\ lmCalls = cfg.MaxAgentTurns /\ cfg.MaxAgentTurns = DefaultMaxAgentTurns
    /\ err.Cause = ErrMaxTurnsExceeded


\* C2: when every one of the first MaxAgentTurns LM responses carries tool calls that
\* all execute, the turn fails with the Internal max-turns-exceeded error and the
\* failure carries the tool calls executed so far.
C2_MaxTurnsCarriesToolCalls ==
    (prog = "sdk" /\ pc = "done" /\ mode = ModeAgentic /\ turn = cfg.MaxAgentTurns) =>
        /\ err.Code = ErrCodeInternal /\ err.Cause = ErrMaxTurnsExceeded
        /\ \/ result.ToolCalls = toolCalls
           \/ "toolCalls" \in DOMAIN err.Details

\* C3: when runLoop reaches MaxTurns without an end-of-turn response, Agent.Chat
\* returns an error and neither appends nor saves an assistant message.
C3_ExhaustedChatFails ==
    (prog = "agent" /\ apc = "done" /\ acfg.MaxTurns >= 1 /\ aturn >= acfg.MaxTurns) =>
        /\ aOut.err # ""
        /\ conv.Messages[Len(conv.Messages)].Role # "assistant"
        /\ conv.ID \in DOMAIN convStore =>
               convStore[conv.ID][Len(convStore[conv.ID])].Role # "assistant"

\* C4: in a successful agentic-mode turn ChatResult.ToolCalls has one entry per
\* executor invoked, in the order the LM emitted the calls.
C4_ToolCallsMatchInvocations ==
    (Succeeded /\ mode = ModeAgentic) =>
        /\ Len(result.ToolCalls) = Len(invoked)
        /\ \A i \in 1..Len(invoked) :
               /\ result.ToolCalls[i].Name = invoked[i].Name
               /\ result.ToolCalls[i].Params = invoked[i].ID
        /\ \A i, j \in 1..Len(result.ToolCalls) :
               i < j => result.ToolCalls[i].Params < result.ToolCalls[j].Params
C4_Witness ==
    /\ Succeeded /\ mode = ModeAgentic /\ pc = "done"
    /\ Len(result.ToolCalls) = 3 /\ lmCalls = 3
    /\ result.ToolCalls[1].Name # result.ToolCalls[2].Name
    /\ result.Response # JEmpty

\* the loop processes its next call, and the call names an action of the skill
NextCallIsAction(confirm) ==
    /\ prog = "sdk" /\ pc = "tools" /\ ctx' = ctx
    /\ Head(pending).Args = "ok"
    /\ Head(pending).Name \in RegActions \cap SeqToSet(skill.Tools)
    /\ Head(pending).Name \notin RegSources
    /\ RequiresConfirmation(Head(pending).Name) = confirm

C6_PendingCallListed ==
    (Succeeded /\ mode = ModeAgentic /\ result.SuggestedAction # <<>>) =>
        \E i \in 1..Len(result.ToolCalls) :
            /\ result.ToolCalls[i].Name = result.SuggestedAction[1].Tool
            /\ result.ToolCalls[i].Params = result.SuggestedAction[1].Params
            /\ result.ToolCalls[i].Duration = "measured"

\* valid JSON holding every field of the schema's required list
HasRequired(schema, resp) ==
    /\ resp.kind \notin {"invalid", "empty"}
    /\ \A i \in 1..Len(schema.Required) :
           resp.kind = "object" /\ schema.Required[i] \in DOMAIN resp.fields

\* C7: every successful turn on a skill with an output schema returns a Response that
\* is valid JSON and holds every required field.
C7_ResponseMeetsSchema ==
    (Succeeded /\ skill.Output # <<>>) => HasRequired(skill.Output[1], result.Response)

\* C8: if the LM's final content is not valid JSON or lacks a required field, Chat
\* fails with a schema error, no post-hook or PostProcess runs and no assistant message
\* reaches the store.
C8_SchemaFailureAborts ==
    (prog = "sdk" /\ ran.final # <<>> /\ skill.Output # <<>>
        /\ ~HasRequired(skill.Output[1], ran.final[1])) =>
        /\ pc = "done" /\ err.Code = ErrCodeSchema
        /\ ~ran.post /\ ~ran.postProcess /\ ~ran.asstStored
        /\ \A i \in 1..Len(storage) : storage[i].Role # "assistant"
C8_Witness ==
    /\ prog = "sdk" /\ pc = "done" /\ err.Code = ErrCodeSchema
    /\ ran.pre /\ GetPostprocess(skill.ID) /\ HasPostProcess(skill.ID)
    /\ ran.final = <<JObj([text |-> JStr("a")])>>


\* a value conforms to a property schema: its type, its enum, every array element
\* against items, every present field of a nested object against its own schema
RECURSIVE ConformsTo(_, _)
ConformsTo(p, v) ==
    /\ p.Type = "string" => v.kind = "string"
    /\ p.Type = "number" => v.kind = "number"
    /\ p.Enum # <<>> => v.kind = "string" /\ v.v \in SeqToSet(p.Enum)
    /\ p.Type = "array" =>
           /\ v.kind = "array"
           /\ p.Items # <<>> => \A i \in 1..Len(v.elems) : ConformsTo(p.Items[1], v.elems[i])
    /\ p.Type = "object" =>
           /\ v.kind = "object"
           /\ \A k \in (DOMAIN p.Properties) \cap (DOMAIN v.fields) :
                  ConformsTo(p.Properties[k], v.fields[k])

\* C9: validateResponse accepts a response only if every present field conforms to
\* the type, enum, items and nested properties its schema declares.
C9_DeepValidation ==
    (prog = "validate" /\ vResult = "" /\ vSchema # <<>>) =>
        \A k \in (DOMAIN vSchema[1].Properties) \cap (DOMAIN MapOf(vResponse)) :
            ConformsTo(vSchema[1].Properties[k], MapOf(vResponse)[k])

\* C10: within one request the user message is in the store before the first LM call
\* is issued, and the assistant message is stored only after the result was assembled.
C10_StoreOrder ==
    prog = "sdk" =>
        /\ lmCalls >= 1 => ran.userStored
        /\ ran.asstStored => Succeeded /\ result.MessageID # ""


\* C11: once the request's context is cancelled or past its deadline during an
\* agentic-mode turn, no further LM call and no further tool execution is issued, and
\* the turn ends with the cancellation reason.
C11_NoStepAfterCancel ==
    /\ [][(prog = "sdk" /\ ctx.err # "") => (lmCalls' = lmCalls /\ invoked' = invoked)]_vars
    /\ []((prog = "sdk" /\ ctx.err # "" /\ pc = "done") => err.Cause = ctx.err)

\* C12: after a turn aborted by a cancellation that arrived while a tool was executing,
\* the store holds the turn's user message and no assistant message.
C12_CancelledTurnKeepsUserMessage ==
    (prog = "sdk" /\ pc = "done" /\ ctx.at = "tools" /\ err # NoErr) =>
        /\ \E i \in 1..Len(storage) : storage[i].Role = "user"
        /\ \A i \in 1..Len(storage) : storage[i].Role # "assistant"

\* C13: a successful result carries a non-empty ConversationID (the request's when it
\* gave one, a fresh one otherwise), a non-empty MessageID, the routed skill's id, and
\* the mode resolved as request.Mode, else skill.Mode, else Config.ExecutionMode, which
\* is expert or agentic.
C13_ResultFields ==
    Succeeded =>
        /\ result.ConversationID # ""
        /\ req.ConversationID # "" => result.ConversationID = req.ConversationID
        /\ req.ConversationID = "" => result.ConversationID = NewConversationID
        /\ result.MessageID # ""
        /\ result.SkillID = skill.ID /\ skill \in Skills
        /\ result.Mode = (IF req.Mode # "" THEN req.Mode
                          ELSE IF skill.Mode # "" THEN skill.Mode
                          ELSE cfg.ExecutionMode)
        /\ result.Mode \in {ModeExpert, ModeAgentic}
C13_Witness ==
    /\ Succeeded /\ pc = "done"
    /\ req.Mode = ModeExpert /\ skill.Mode = ModeAgentic /\ cfg.ExecutionMode = ModeAgentic
    /\ result.Mode = ModeExpert /\ ran.asstStored

\* the skills one of whose triggers occurs, lowered, in the lowered utterance
Matching(message) ==
    {sk \in Skills : \E t \in sk.Triggers : Contains(ToLower(message), ToLower(t))}
\* nothing of the turn has happened
Untouched == lmCalls = 0 /\ invoked = <<>> /\ ran = NoRan /\ storage = <<>> /\ variant = <<>>

RegistrationOrder == <<"mode-expert", "mode-agentic">>

\* C15: for a fixed registry and utterance every call of Match returns the same list:
\* the matching skills, once each, in registration order.
C15_MatchDeterministic ==
    prog = "match" =>
        \A k \in 1..Len(mResults) :
            /\ mResults[k] = mResults[1]
            /\ mResults[k] =
                 SelectSeq(RegistrationOrder,
                           LAMBDA id : \E sk \in Matching(mMessage) : sk.ID = id)

\* C16: a requested variant id that the skill declares is the variant selectVariant
\* returns, the ChatResult's Variant and the stored assistant message's Variant; one
\* variant is selected per request.
C16_RequestedVariant ==
    /\ (prog = "variant" /\ svReq.Variant # ""
          /\ \E i \in 1..Len(svSkill) : svSkill[i].Variant = svReq.Variant) =>
           \A k \in 1..Len(svResults) :
               /\ svResults[k].sel.out = "variant"
               /\ svResults[k].sel.v.Variant = svReq.Variant
               /\ svResults[k].sel.v \in SeqToSet(svSkill)
    /\ (prog = "sdk" /\ req.Variant # ""
          /\ \E i \in 1..Len(skill.Variants) : skill.Variants[i].Variant = req.Variant) =>
           /\ Len(variant) <= 1
           /\ variant # <<>> => variant[1].Variant = req.Variant
           /\ Succeeded => variant # <<>> /\ result.Variant = req.Variant
           /\ \A i \in 1..Len(storage) :
                  storage[i].Role = "assistant" => storage[i].Variant = req.Variant
C16_Witness ==
    /\ Succeeded /\ pc = "done" /\ req.Variant = "B" /\ result.Variant = "B"
    /\ mode = ModeAgentic /\ ran.asstStored

\* C17: with no variant requested and a non-empty user id, every call selects the same
\* variant whatever the clock reads.
C17_StickyVariant ==
    (prog = "variant" /\ svReq.Variant = "" /\ svReq.UserID # <<>>
        /\ \A i \in 1..Len(svSkill) : svSkill[i].Weight >= 1) =>
        \A j, k \in 1..Len(svResults) : svResults[j].sel = svResults[k].sel

\* weights as the selection is to count them: zero and negative weights as 1
CountedWeights(vs) ==
    [i \in 1..Len(vs) |-> [vs[i] EXCEPT !.Weight = IF @ <= 0 THEN 1 ELSE @]]

\* C18: for any integer weights selectVariant completes and returns a declared variant,
\* the one the draw picks when zero and negative weights count as 1.
C18_AnyWeights ==
    prog = "variant" =>
        \A k \in 1..Len(svResults) :
            /\ svResults[k].sel.out = "variant"
            /\ svResults[k].sel.v \in SeqToSet(svSkill)
            /\ requestedAmong(svSkill, svReq.Variant) = <<>> =>
                 svResults[k].sel.v.Variant =
                   pickCumulative(CountedWeights(svSkill), 1, 0,
                       GoRem(svResults[k].now + SumRunes(svReq.UserID),
                             totalWeight(CountedWeights(svSkill)))).Variant

\* C19: what a store's get returned shares nothing with the store: a caller changing
\* it leaves the store's content as it was.
C19_GetNotAliased ==
    /\ [][(prog = "memstore" /\ msLast'.op = "mutate") => msConvs' = msConvs]_vars
    /\ [][(prog = "agent" /\ apc = "idle") => convStore' = convStore]_vars

\* C20: AddMessage appends the message to the conversation, creating it when unknown;
\* GetMessages returns the messages in append order, all of them when limit <= 0 or
\* limit >= n, the last limit of them when 0 < limit < n.
C20_AppendAndWindow ==
    /\ [][(prog = "memstore" /\ msLast'.op = "add") =>
            /\ msLast'.id \in DOMAIN msConvs'
            /\ msConvs'[msLast'.id] =
                 Append(IF msLast'.id \in DOMAIN msConvs THEN msConvs[msLast'.id] ELSE <<>>,
                        msLast'.m)
            /\ \A id \in DOMAIN msConvs : id # msLast'.id => msConvs'[id] = msConvs[id]]_vars
    /\ []((prog = "memstore" /\ msLast.op = "get" /\ msLast.id \in DOMAIN msConvs) =>
            LET all == msConvs[msLast.id]
                n == Len(all)
            IN msGot.msgs = IF msLast.limit <= 0 \/ msLast.limit >= n
                            THEN all
                            ELSE SubSeq(all, n - msLast.limit + 1, n))
C20_Witness ==
    /\ prog = "memstore" /\ msLast.op = "get" /\ msLast.id \in DOMAIN msConvs
    /\ msLast.limit = 2 /\ Len(msConvs[msLast.id]) = 3
    /\ msGot.msgs = <<2, 1>>


\* C26: an expert-mode turn issues one LM call when it succeeds and never more; the
\* ToolExecutor of the fetcher invokes sources only, a name that is not a source is
\* refused, and the result lists one ToolCall per source invoked, in call order.
C26_ExpertInvokesSourcesOnly ==
    (prog = "sdk" /\ mode = ModeExpert) =>
        /\ lmCalls <= 1
        /\ Succeeded => lmCalls = 1
        /\ \A i \in 1..Len(invoked) : invoked[i].Name \in RegSources
        /\ ran.refused \cap RegSources = {}
        /\ Len(toolCalls) = Len(invoked)
        /\ \A i \in 1..Len(invoked) : toolCalls[i].Name = invoked[i].Name
        /\ Succeeded => result.ToolCalls = toolCalls
C26_Witness ==
    /\ Succeeded /\ mode = ModeExpert /\ pc = "done"
    /\ ran.refused = {"send_email"}
    /\ Len(result.ToolCalls) = 1 /\ result.ToolCalls[1].Name = "search"

C28_HookFailureAborts ==
    /\ (prog = "sdk" /\ ran.hookErr = "pre") =>
           /\ pc = "done" /\ err = Errorf("preprocess hook failed")
           /\ lmCalls = 0
    /\ (prog = "sdk" /\ ran.hookErr = "post") =>
           /\ pc = "done" /\ err = Errorf("postprocess hook failed")
           /\ ~ran.postProcess
    /\ (prog = "sdk" /\ ran.hookErr # "") =>
           /\ handleError(err) = ErrCodeInternal
           /\ storage = <<>> /\ ~ran.userStored /\ ~ran.asstStored
           /\ result = ZeroResult
C28_Witness ==
    /\ prog = "sdk" /\ ran.hookErr = "post" /\ mode = ModeExpert /\ HasPostProcess(skill.ID)
    /\ ran.pre /\ lmCalls = 1

\* C30: in the agent loop a tool whose executor was invoked never ends the turn,
\* whatever the executor returns: the call is recorded as a ToolCall, the loop goes on
\* to the next call of the response or to the next LM call.
C30_ToolErrorNotFatal ==
    [][(prog = "sdk" /\ pc = "tools" /\ invoked' # invoked) =>
          /\ err' = NoErr /\ pc' \in {"tools", "loop"}
          /\ Len(toolCalls') = Len(toolCalls) + 1
          /\ toolCalls'[Len(toolCalls')].Name = Head(pending).Name
          /\ pending' = Tail(pending)]_vars


Occurrences(list, m) == Cardinality({i \in 1..Len(list) : list[i] = m})
SharedMessages == IF SharedID \in DOMAIN ccConvs THEN ccConvs[SharedID] ELSE <<>>
InAddMessage(g) == ccPc[g] \in {"lookup", "create", "append", "unlock"}

\* C21: whatever the interleaving of the AddMessage calls of concurrent requests on
\* one conversation id, the creating ones included, every message whose AddMessage
\* returned is in the conversation exactly once, no message is there twice, and once
\* no call is under way the conversation holds the added messages and nothing else.
C21_AddMessageAtomic ==
    prog = "chats" =>
        /\ \A g \in Callers : \A m \in ccLocal[g].added : Occurrences(SharedMessages, m) = 1
        /\ \A i, j \in 1..Len(SharedMessages) : i # j => SharedMessages[i] # SharedMessages[j]
        /\ (\A g \in Callers : ~InAddMessage(g)) =>
               Len(SharedMessages) = Cardinality(UNION {ccLocal[g].added : g \in Callers})
C21_Witness ==
    /\ prog = "chats" /\ \A g \in Callers : ccPc[g] = "returned"
    /\ Len(SharedMessages) = 4
    /\ SharedMessages[1].By = <<1, 1>> /\ SharedMessages[2].By = <<2, 1>>

\* C22: once the turns of the requests on a conversation are completed, its stored
\* messages alternate: no two neighbours have the same role.
C22_RolesAlternate ==
    (prog = "chats" /\ \A g \in Callers : ccPc[g] \in {"idle", "returned"}) =>
        \A i \in 1..(Len(SharedMessages) - 1) :
            SharedMessages[i].Role # SharedMessages[i + 1].Role

\* C23: the definitions a list returned by AllSources, AllActions or skills.Registry.All
\* shows stay those it showed when it was returned, whatever is registered later.
C23_SnapshotIsolation ==
    (prog = "registry" /\ rgSnap # <<>>) =>
        Deref(rgHeap, rgSnap[1].addrs) = rgSnap[1].shown
C23_Witness ==
    /\ prog = "registry" /\ rgSnap # <<>> /\ Len(rgSnap[1].addrs) = 2
    /\ \E i \in 1..2 :
         LET now == rgMaps[rgSnap[1].kind][rgSnap[1].shown[i].Name]
         IN now # rgSnap[1].addrs[i]
            /\ rgHeap[now].Description # rgSnap[1].shown[i].Description

\* C24: with every name registered GetForSkill returns no error and the names split
\* over the two lists, each list in the order of the names; with a name in neither
\* map it returns the unknown-tool error for the first such name and no tools.
C24_GetForSkillPartitions ==
    (prog = "resolve" /\ gfResult # <<>>) =>
        LET r == gfResult[1]
            unknown == {i \in 1..Len(gfNames) : gfNames[i] \notin RegSources \cup RegActions}
            inSources(n) == n \in SeqToSet(r.sources)
            inActions(n) == n \in SeqToSet(r.actions)
        IN IF unknown = {}
           THEN /\ r.err = ""
                /\ SeqToSet(r.sources) \cap SeqToSet(r.actions) = {}
                /\ SeqToSet(r.sources) \subseteq RegSources
                /\ SeqToSet(r.actions) \subseteq RegActions
                /\ r.sources = SelectSeq(gfNames, inSources)
                /\ r.actions = SelectSeq(gfNames, inActions)
                /\ Len(r.sources) + Len(r.actions) = Len(gfNames)
           ELSE /\ r.err = ErrToolNotFound
                /\ r.unknown = gfNames[CHOOSE i \in unknown : \A j \in unknown : i <= j]
                /\ r.sources = <<>> /\ r.actions = <<>>
C24_Witness ==
    /\ prog = "resolve" /\ gfNames = <<"send_email", "search", "get_weather">>
    /\ gfResult # <<>> /\ gfResult[1].sources = <<"search", "get_weather">>

\* what the function should read for parameter k: the supplied value, else the declared
\* default, else the zero value
Expected(k, zero) ==
    IF k \in DOMAIN tiCall.params THEN tiCall.params[k].v
    ELSE IF DeclaredParams[k].def # <<>> THEN DeclaredParams[k].def[1].v
    ELSE zero

\* C25: the function of a tool registered through tools.Registry sees the params map
\* of the call: Has is true exactly for its keys, String / Int / Bool return the
\* supplied values, and the declared default for a parameter the call leaves out.
C25_InputShowsParams ==
    (prog = "input" /\ tiSeen # <<>>) =>
        /\ tiSeen[1].has = DOMAIN tiCall.params
        /\ tiSeen[1].city = Expected("city", "")
        /\ tiSeen[1].unit = Expected("unit", "")
        /\ tiSeen[1].days = Expected("days", 0)
        /\ tiSeen[1].metric = Expected("metric", FALSE)

\* C29: the pre-hook of a request is handed an empty metadata map, and the post-hook
\* of the request is handed that map with what the pre-hook of the same request wrote
\* and nothing else, whatever other requests do meanwhile or did before.
C29_MetadataPerRequest ==
    prog = "chats" =>
        \A g \in Callers :
            /\ ccSeen[g].pre # <<>> => ccSeen[g].pre[1] = <<>>
            /\ ccSeen[g].post # <<>> =>
                   ccSeen[g].post[1] = IF ccLocal[g].wrote
                                       THEN WithKey(<<>>, g, ccLocal[g].n)
                                       ELSE <<>>
C29_Witness ==
    /\ prog = "chats"
    /\ \A g \in Callers : ccLocal[g].wrote /\ ccSeen[g].post # <<>> /\ ccPc[g] = "lock"
    /\ ccLocal[1].n = 2 /\ ccLocal[2].n = 1


\* C31: a response the provider stopped for the length limit fails the turn with an
\* LLM error (truncated): the step that receives it ends ExecuteSkill, the agent loop
\* of executeAgenticMode and Agent.runLoop with that error, so its content is neither
\* returned nor stored and no further LM call follows
C31_TruncationSurfaced ==
    [][/\ ((\E lm \in LMResponses(lmCalls) :
              /\ lm.kind # "error" /\ lm.finish = FinishLength
              /\ \/ lm.kind = "content" /\ ExecuteSkill(lm)
                 \/ ChatCompletion(lm))
           => (pc' = "done" /\ err'.Code = ErrCodeLLM /\ result' = ZeroResult))
        /\ ((\E resp \in ProviderResponses(aCalls) :
              resp.kind = StopReasonLength /\ ProviderChat(resp))
           => (apc' = "done" /\ aOut'.returned /\ aOut'.err # ""))]_vars


\* the kind of an error as errors.As finds it: the code of the SDKError in its chain
KindOf(e) == IF e.Code = "" THEN ErrCodeInternal ELSE e.Code
\* C32: for every error SDK.Chat returns to the /chat handler the status follows the
\* error's kind (Routing 400, NotFound 404, Validation 400, Timeout 504, any other 500)
\* and the envelope's code names that kind
C32_StatusFollowsKind ==
    (prog = "sdk" /\ pc = "done" /\ err # NoErr) =>
        /\ handleError(err) = KindOf(err)
        /\ handleErrorStatus(err) =
              CASE KindOf(err) \in {ErrCodeRouting, ErrCodeValidation} -> 400
                [] KindOf(err) = ErrCodeNotFound -> 404
                [] KindOf(err) = ErrCodeTimeout -> 504
                [] OTHER -> 500


\* C33: a failing AddMessage of storeMessages never changes what Chat returns: the
\* steps that persist leave the formed result and the nil error as they are whichever
\* of them fail, and the assistant message is written only after the user message
C33_PersistenceNeverFailsTurn ==
    /\ [][(prog = "sdk" /\ pc \in {"store_user", "store_assistant"}) =>
             (result' = result /\ err' = NoErr /\ err = NoErr)]_vars
    /\ [](prog = "sdk" =>
             /\ ran.asstStored => ran.userStored
             /\ \A i \in 1..Len(storage) :
                  storage[i].Role = "assistant" => (i > 1 /\ storage[i - 1].Role = "user"))
\* the assistant message could not be stored and Chat returned the result
C33_Witness ==
    /\ prog = "sdk" /\ pc = "done" /\ err = NoErr
    /\ ran.userStored /\ ~ran.asstStored
    /\ result.MessageID # "" /\ result.Response # JEmpty


\* C34: a request whose message is empty or longer than MaxMessageLength is rejected
\* by SDK.Chat with a Validation error before any routing, hook, tool or LM call, and
\* nothing is persisted
C34_MessageValidated ==
    (prog = "sdk" /\ pc # "idle"
       /\ (Len(req.Message) = 0 \/ Len(req.Message) > MaxMessageLength)) =>
        /\ pc = "done" /\ err.Code = ErrCodeValidation
        /\ skill = NoSkill /\ Untouched


\* C35: a conversation id that fails validateID is rejected by SDK.Chat with a
\* Validation error before anything of the turn happens, and the store never holds
\* a conversation under such an id
C35_UnsafeIDRejected ==
    /\ (prog = "sdk" /\ pc # "idle" /\ req.ConversationID # ""
          /\ validateID(IDText(req.ConversationID)) # "") =>
           (pc = "done" /\ err.Code = ErrCodeValidation /\ Untouched)
    /\ prog = "memstore" => \A id \in DOMAIN msConvs : validateID(IDText(id)) = ""


\* C36: for the same skill, variant, request context and utterance the messages built
\* for agentic mode equal those buildPrompt builds with no data; when a pre-hook
\* injected seed data, one system "Initial data:" message stands immediately before
\* the user message and nothing else differs
C36_SameMessages ==
    (prog = "prompt" /\ pmOut # <<>>) =>
        LET e == pmOut[1].expert
            a == pmOut[1].agentic
        IN IF pmIn.fetchedData = "nil"
           THEN a = e
           ELSE /\ Len(a) = Len(e) + 1
                /\ SubSeq(a, 1, Len(e) - 1) = SubSeq(e, 1, Len(e) - 1)
                /\ a[Len(e)] = [Role |-> "system", Content |-> <<"Initial data:", pmIn.fetchedData>>]
                /\ a[Len(a)] = e[Len(e)]


\* C37: in Agent.runLoop the tool calls c1..cn of a tool-use response are executed one
\* at a time in that order; the response appends the assistant message, each execution
\* appends one tool-result message carrying the id of its call and an error flag set
\* exactly when the call failed or named an unknown tool, and one ToolCall with the
\* same id and flag; the next LM call is issued only when all n are done
C37_ToolsInOrder ==
    /\ [][(prog = "agent" /\ apc = "loop" /\ apc' = "tools") =>
             /\ llmMessages' = Append(llmMessages, [Role |-> "assistant", ID |-> 0])
             /\ aPending' # <<>> /\ allToolCalls' = allToolCalls
             /\ \A i \in 1..Len(aPending') : aPending'[i].ID = aEmitted + i]_vars
    /\ [][(prog = "agent" /\ apc = "tools") =>
             LET c == Head(aPending) IN
             /\ aPending' = Tail(aPending)
             /\ Len(llmMessages') = Len(llmMessages) + 1
             /\ Len(allToolCalls') = Len(allToolCalls) + 1
             /\ llmMessages'[Len(llmMessages')].Role = "tool"
             /\ llmMessages'[Len(llmMessages')].ID = c.ID
             /\ allToolCalls'[Len(allToolCalls')].ID = c.ID
             /\ allToolCalls'[Len(allToolCalls')].Name = c.Name
             /\ allToolCalls'[Len(allToolCalls')].Error = llmMessages'[Len(llmMessages')].IsError
             /\ c.Name \notin AgentTools => llmMessages'[Len(llmMessages')].IsError
             /\ \A ok \in BOOLEAN :
                   AgentExecuteTool(ok) =>
                     llmMessages'[Len(llmMessages')].IsError = (c.Name \notin AgentTools \/ ~ok)
             /\ apc' = IF Tail(aPending) = <<>> THEN "loop" ELSE "tools"
             /\ aCalls' = aCalls]_vars
    /\ []((prog = "agent" /\ apc = "loop") =>
             (aPending = <<>> /\ Len(allToolCalls) = aEmitted))
\* two calls of one response were executed, the second failed
C37_Witness ==
    /\ prog = "agent" /\ apc = "loop" /\ aCalls = 1 /\ Len(allToolCalls) = 2
    /\ allToolCalls[1].ID = 1 /\ ~allToolCalls[1].Error
    /\ allToolCalls[2].ID = 2 /\ allToolCalls[2].Error /\ allToolCalls[2].Name = "unknown_tool"
    /\ llmMessages[Len(llmMessages)] = [Role |-> "tool", ID |-> 2, IsError |-> TRUE]
    /\ llmMessages[Len(llmMessages) - 1] = [Role |-> "tool", ID |-> 1, IsError |-> FALSE]
    /\ llmMessages[Len(llmMessages) - 2].Role = "assistant"


\* a message of caller g in the stored conversation
Holds(g, role) == \E i \in 1..Len(sxStore) : sxStore[i] = [Role |-> role, By |-> g]
\* C38: when two concurrent Agent.Chat calls on the same existing session have both
\* succeeded, the stored conversation holds the user message and the assistant
\* message of both
C38_NoLostUpdate ==
    (prog = "sessions" /\ \A g \in SessionCallers : sxPc[g] = "done") =>
        \A g \in SessionCallers : Holds(g, "user") /\ Holds(g, "assistant")

\* C40: when an expert handler produced the result, ExpertType and ExpertName of the
\* result are those of the expert whose handler ran, also after the fall-back to the
\* default expert
C40_ResultNamesHandler ==
    (prog = "dispatch" /\ dpOut # <<>> /\ dpOut[1].kind = "answer") =>
        /\ dpOut[1].ExpertType = dpOut[1].handler
        /\ dpOut[1].ExpertName = dpIn.experts[dpOut[1].handler]


\* C39: when Agent.Chat returns an error the store holds for every session what it
\* held when Chat was called: nothing is saved on the error path
C39_ErrorLeavesStore ==
    (prog = "agent" /\ apc = "done" /\ aOut.returned /\ aOut.err # "") =>
        convStore = aBefore

====
